---- MODULE Spec2Model ----
(***************************************************************************)
(* Model of the steam-judger backend: the /api/games/:steamid handler      *)
(* (D1-backed cache with a 7 day TTL and the zero-count refresh rule),     *)
(* the Steam catalog client it calls, the steam_games_cache table, and the *)
(* /api/user, /api/analyze and /api/model handlers that run beside it.     *)
(*                                                                         *)
(* Every handler is split at its await points: one action per resumption,  *)
(* so requests interleave exactly where the event loop lets them.          *)
(* Time is in milliseconds, as Date.now() and the timestamp_ms column are. *)
(***************************************************************************)
EXTENDS Integers, Sequences, FiniteSets, TLC

(***************************************************************************)
(* Bounds of the model                                                     *)
(***************************************************************************)
MaxReqs == 2
MaxTicks == 3
MaxNow == 604802000

Reqs == 1..MaxReqs

(***************************************************************************)
(* Program constants                                                       *)
(***************************************************************************)
CACHE_TTL_SECONDS == 7 * 24 * 60 * 60

CACHE_TTL_MS == CACHE_TTL_SECONDS * 1000

\* The clock advances by one second or by one second less than the TTL, so
\* that ages of TTL - 1s, TTL and TTL + 1s all occur.
TickSteps == {1000, CACHE_TTL_MS - 1000}

(***************************************************************************)
(* Request parameters: the :steamid path segment as a sequence of          *)
(* characters.                                                             *)
(***************************************************************************)
Digits == {"0", "1", "2", "3", "4", "5", "6", "7", "8", "9"}

ID_A == <<"7","6","5","6","1","1","9","8","0","0","0","0","0","0","0","0","1">>

ID_B == <<"7","6","5","6","1","1","9","8","0","0","0","0","0","0","0","0","2">>

ID_SHORT == <<"7","6","5","6">>

\* The identifiers the routes are requested with; ID_B is a second user
\* whose entry is already in the table and who makes no request.
SteamIdParams == {ID_A, ID_SHORT}

KnownIds == SteamIdParams \cup {ID_B}

\* Variant: the pattern without its anchors, /\d{17}/: seventeen digits in
\* a row anywhere in the string.
isValidSteamId64_Unanchored(id) ==
  \E start \in 1..Len(id) :
    /\ start + 16 <= Len(id)
    /\ \A i \in start..(start + 16) : id[i] \in Digits

\* /^\d{17}$/.test(id)
isValidSteamId64(id) ==
  /\ Len(id) = 17
  /\ \A i \in 1..Len(id) : id[i] \in Digits

ValidIds == {id \in KnownIds : isValidSteamId64(id)}

(***************************************************************************)
(* Upstream catalog: raw GameInfo records and the replies axios can give   *)
(***************************************************************************)
GameB == [appid |-> 10, name |-> "B", playtime_forever |-> 125,
          rtime_last_played |-> 0, img_icon_url |-> ""]

GameA == [appid |-> 20, name |-> "a", playtime_forever |-> 600,
          rtime_last_played |-> 86400, img_icon_url |-> "abc"]

\* JSON objects are functions from field names; {} is the empty function.
EmptyObject == <<>>

AxiosReplies ==
  { [settled |-> "resolved", data |-> [response |-> [game_count |-> 2, games |-> <<GameB, GameA>>]]],
    [settled |-> "resolved", data |-> [response |-> [game_count |-> 0, games |-> <<>>]]],
    [settled |-> "resolved", data |-> [response |-> EmptyObject]],
    [settled |-> "resolved", data |-> [response |-> [game_count |-> 3]]],
    [settled |-> "rejected", error |-> [isAxiosError |-> TRUE, hasResponse |-> TRUE, status |-> 401]],
    [settled |-> "rejected", error |-> [isAxiosError |-> TRUE, hasResponse |-> FALSE, status |-> 0]] }

\* Collation order of the names used (localeCompare: lower case before upper
\* case of the same letter, letters in alphabetical order).
NameOrder == <<"a", "A", "b", "B">>

NameRank(n) == CHOOSE i \in 1..Len(NameOrder) : NameOrder[i] = n

localeCompare(a, b) == NameRank(a) - NameRank(b)

RECURSIVE InsertByName(_, _)
InsertByName(sorted, g) ==
  IF sorted = <<>> THEN <<g>>
  ELSE IF localeCompare(sorted[Len(sorted)].name, g.name) <= 0
       THEN Append(sorted, g)
       ELSE Append(InsertByName(SubSeq(sorted, 1, Len(sorted) - 1), g), sorted[Len(sorted)])

\* Array.prototype.sort((a, b) => a.name.localeCompare(b.name)): stable.
RECURSIVE SortByName(_)
SortByName(games) ==
  IF games = <<>> THEN <<>>
  ELSE InsertByName(SortByName(SubSeq(games, 1, Len(games) - 1)), games[Len(games)])

\* new Error(`Steam API request failed with status ${status}. Check API key or permissions.`)
ErrAuth(status) ==
  [message |-> "Steam API request failed with status " \o ToString(status)
               \o ". Check API key or permissions.",
   status |-> status]

ErrShape == [message |-> "Unexpected response structure from Steam API.", status |-> 0]

ErrAxios(e) == [message |-> "axios error", status |-> e.status]

ErrArgs == [message |-> "Both apiKey and steamId are required.", status |-> 0]

\* A JSON value that is no object: null, a boolean, a number (objects are
\* functions from field names, arrays are sequences).
JsPrimitive(text) == [jsPrimitive |-> text]

IsPrimitive(v) == "jsPrimitive" \in DOMAIN v

\* The value in a condition: null, false and 0 are falsy, every object is
\* truthy.
Truthy(v) == IsPrimitive(v) => v.jsPrimitive \notin {"undefined", "null", "false", "0"}

\* v[field], undefined when v has no such field.
Property(v, field) ==
  IF ~IsPrimitive(v) /\ field \in DOMAIN v THEN v[field] ELSE JsPrimitive("undefined")

\* Object.keys(v): the field names of an object, none for a boolean or a
\* number.
ObjectKeys(v) == IF IsPrimitive(v) THEN {} ELSE DOMAIN v

\* response.data && response.data.response
InnerResponse(data) == IF Truthy(data) THEN Property(data, "response") ELSE data

\* response.data && response.data.response && response.data.response.games
\* (a games field, where a reply has one, holds a list).
CarriesGames(data) ==
  /\ Truthy(InnerResponse(data))
  /\ ~IsPrimitive(InnerResponse(data))
  /\ "games" \in DOMAIN InnerResponse(data)

\* Variant: a rejected call is swallowed and reported as "no games".
getOwnedSteamGames_Swallow(reply) ==
  IF reply.settled = "resolved"
  THEN IF CarriesGames(reply.data)
       THEN [ok |-> TRUE, games |-> SortByName(reply.data.response.games)]
       ELSE IF /\ Truthy(InnerResponse(reply.data))
               /\ ObjectKeys(InnerResponse(reply.data)) = {}
            THEN [ok |-> TRUE, games |-> <<>>]
            ELSE [ok |-> FALSE, error |-> ErrShape]
  ELSE [ok |-> TRUE, games |-> <<>>]

\* Variant: the games are returned in the order of the reply, unsorted.
getOwnedSteamGames_Unsorted(reply) ==
  IF reply.settled = "resolved"
  THEN IF CarriesGames(reply.data)
       THEN [ok |-> TRUE, games |-> reply.data.response.games]
       ELSE IF /\ Truthy(InnerResponse(reply.data))
               /\ ObjectKeys(InnerResponse(reply.data)) = {}
            THEN [ok |-> TRUE, games |-> <<>>]
            ELSE [ok |-> FALSE, error |-> ErrShape]
  ELSE IF /\ reply.error.isAxiosError
          /\ reply.error.hasResponse
          /\ reply.error.status \in {401, 403}
       THEN [ok |-> FALSE, error |-> ErrAuth(reply.error.status)]
       ELSE [ok |-> FALSE, error |-> ErrAxios(reply.error)]

\* Variant: without the 401/403 case every rejection is rethrown as it is.
getOwnedSteamGames_NoAuthCase(reply) ==
  IF reply.settled = "resolved"
  THEN IF CarriesGames(reply.data)
       THEN [ok |-> TRUE, games |-> SortByName(reply.data.response.games)]
       ELSE IF /\ Truthy(InnerResponse(reply.data))
               /\ ObjectKeys(InnerResponse(reply.data)) = {}
            THEN [ok |-> TRUE, games |-> <<>>]
            ELSE [ok |-> FALSE, error |-> ErrShape]
  ELSE [ok |-> FALSE, error |-> ErrAxios(reply.error)]

\* getOwnedSteamGames: classification of the reply, sort, error mapping.
getOwnedSteamGames(reply) ==
  IF reply.settled = "resolved"
  THEN IF CarriesGames(reply.data)
       THEN [ok |-> TRUE, games |-> SortByName(reply.data.response.games)]
       ELSE IF /\ Truthy(InnerResponse(reply.data))
               /\ ObjectKeys(InnerResponse(reply.data)) = {}
            THEN [ok |-> TRUE, games |-> <<>>]
            ELSE [ok |-> FALSE, error |-> ErrShape]
  ELSE IF /\ reply.error.isAxiosError
          /\ reply.error.hasResponse
          /\ reply.error.status \in {401, 403}
       THEN [ok |-> FALSE, error |-> ErrAuth(reply.error.status)]
       ELSE [ok |-> FALSE, error |-> ErrAxios(reply.error)]

\* The minutes up to 600 whose quotient by 60 lies halfway between two
\* tenths and whose double-precision quotient lies below that half (9 / 60
\* is 0.1499999999999999944...): toFixed rounds the double, so these go down.
QuotientBelowHalf ==
  { 9, 21, 51, 57, 69, 87, 99, 117, 123, 129, 153, 159, 183, 189, 213,
     219, 243, 261, 273, 291, 303, 321, 333, 351, 363, 381, 393, 411, 423,
     441, 453, 471, 501, 507, 531, 537, 561, 567, 591, 597 }

\* Variant: the quotient is cut after the first decimal.
HoursTenths_Truncated(minutes) == (minutes * 10) \div 60

\* (minutes / 60).toFixed(1), in tenths of an hour: the tenth nearest to the
\* double-precision quotient, the larger one when the double is exactly
\* halfway.
HoursTenths(minutes) ==
  IF minutes \in QuotientBelowHalf
  THEN (minutes * 10) \div 60
  ELSE (minutes * 10 + 30) \div 60

toFixed1(minutes) ==
  ToString(HoursTenths(minutes) \div 10) \o "." \o ToString(HoursTenths(minutes) % 10)

\* new Date(seconds * 1000).toLocaleDateString(), rendered by day number.
toLocaleDateString(seconds) == "day " \o ToString(seconds \div 86400)

formatGame(game) ==
  [appId |-> game.appid,
   name |-> game.name,
   playtimeHours |-> toFixed1(game.playtime_forever) \o " hours",
   lastPlayed |-> IF game.rtime_last_played > 0
                  THEN toLocaleDateString(game.rtime_last_played)
                  ELSE "Never",
   iconUrl |-> IF game.img_icon_url # ""
               THEN "https://media.steampowered.com/steamcommunity/public/images/apps/"
                    \o ToString(game.appid) \o "/" \o game.img_icon_url \o ".jpg"
               ELSE "No Icon URL Available"]

\* formatGameData: rawGames.map(...)
formatGameData(rawGames) == [i \in 1..Len(rawGames) |-> formatGame(rawGames[i])]

\* getFormattedSteamGames(apiKey, steamId) once axios has settled with reply.
getFormattedSteamGames(apiKey, steamId, reply) ==
  IF ~apiKey \/ steamId = <<>>
  THEN [ok |-> FALSE, error |-> ErrArgs]
  ELSE LET raw == getOwnedSteamGames(reply)
       IN IF raw.ok
          THEN [ok |-> TRUE, games |-> formatGameData(raw.games)]
          ELSE raw

(***************************************************************************)
(* Upstream profile: GetPlayerSummaries replies and getSteamUserInfo       *)
(***************************************************************************)
Player1 ==
  [steamid |-> "76561198000000001", personaname |-> "alice", profileurl |-> "u1",
   avatar |-> "a1", avatarmedium |-> "m1", avatarfull |-> "f1",
   personastate |-> 1, communityvisibilitystate |-> 3, lastlogoff |-> 86400]

Player2 ==
  [steamid |-> "76561198000000009", personaname |-> "bob", profileurl |-> "u2",
   avatar |-> "a2", avatarmedium |-> "m2", avatarfull |-> "f2",
   personastate |-> 0, communityvisibilitystate |-> 1, lastlogoff |-> 0]

PlayerReplies ==
  { [settled |-> "resolved", data |-> [response |-> [players |-> <<Player1>>]]],
    [settled |-> "resolved", data |-> [response |-> [players |-> <<Player2, Player1>>]]],
    [settled |-> "resolved", data |-> [response |-> [players |-> <<>>]]],
    [settled |-> "resolved", data |-> [response |-> EmptyObject]],
    [settled |-> "rejected", error |-> [isAxiosError |-> TRUE, hasResponse |-> TRUE, status |-> 403]] }

ErrUserArgs == [message |-> "Both apiKey and steamId are required for getting user info.", status |-> 0]

ErrUserShape == [message |-> "Unexpected user info response structure from Steam API.", status |-> 0]

ErrUserNotFound == [message |-> "User not found for Steam ID.", status |-> 0]

ErrUserAuth(status) == [message |-> "Steam API request failed (User Info). Check API key.", status |-> status]

\* rawPlayer.lastlogoff ? new Date(rawPlayer.lastlogoff * 1000) : undefined
OptionalDate(seconds) == IF seconds # 0 THEN <<seconds * 1000>> ELSE <<>>

\* getSteamUserInfo(apiKey, steamId) once axios has settled with reply.
getSteamUserInfo(apiKey, steamId, reply) ==
  IF ~apiKey \/ steamId = <<>>
  THEN [ok |-> FALSE, error |-> ErrUserArgs]
  ELSE IF reply.settled = "resolved"
  THEN IF \/ "response" \notin DOMAIN reply.data
          \/ "players" \notin DOMAIN reply.data.response
       THEN [ok |-> FALSE, error |-> ErrUserShape]
       ELSE IF Len(reply.data.response.players) = 0
       THEN [ok |-> FALSE, error |-> ErrUserNotFound]
       ELSE LET rawPlayer == reply.data.response.players[1]
            IN [ok |-> TRUE,
                userInfo |->
                  [steamId |-> rawPlayer.steamid,
                   personaName |-> rawPlayer.personaname,
                   profileUrl |-> rawPlayer.profileurl,
                   avatarIconUrl |-> rawPlayer.avatar,
                   avatarMediumUrl |-> rawPlayer.avatarmedium,
                   avatarFullUrl |-> rawPlayer.avatarfull,
                   personaState |-> rawPlayer.personastate,
                   visibilityState |-> rawPlayer.communityvisibilitystate,
                   lastLogoff |-> OptionalDate(rawPlayer.lastlogoff)]]
  ELSE IF /\ reply.error.isAxiosError
          /\ reply.error.hasResponse
          /\ reply.error.status \in {401, 403}
       THEN [ok |-> FALSE, error |-> ErrUserAuth(reply.error.status)]
       ELSE [ok |-> FALSE, error |-> ErrAxios(reply.error)]

(***************************************************************************)
(* Narrative generator: prompt construction and the completion stream      *)
(***************************************************************************)
MODEL == "deepseek-chat"

MAX_GAMES_IN_PROMPT == 100

MaxTenths == 200

MaxHundredths == 20

Decimal1(t) == ToString(t \div 10) \o "." \o ToString(t % 10)

Decimal2(h) == ToString(h \div 100) \o "." \o ToString((h \div 10) % 10) \o ToString(h % 10)

\* Number.parseFloat(playtimeHours), in hundredths of an hour: the number
\* whose decimal rendering (one or two decimals) starts the string.
parseFloatHundredths(playtimeHours) ==
  LET oneDecimal == {10 * t : t \in {u \in 0..MaxTenths : playtimeHours = Decimal1(u) \o " hours"}}
      twoDecimals == {h \in 0..MaxHundredths : playtimeHours = Decimal2(h) \o " hours"}
  IN CHOOSE v \in oneDecimal \cup twoDecimals : TRUE

\* The playtimes of the games as numbers, in hundredths of an hour.
RECURSIVE PlaytimesOf(_)
PlaytimesOf(games) ==
  IF Len(games) = 0 THEN <<>>
  ELSE IF Len(games) = 1 THEN <<parseFloatHundredths(games[1].playtimeHours)>>
  ELSE LET half == Len(games) \div 2
       IN PlaytimesOf(SubSeq(games, 1, half)) \o PlaytimesOf(SubSeq(games, half + 1, Len(games)))

\* Two runs sorted by playtime descending made one: a game of the first run
\* comes after the games of the second with a higher playtime, a game of
\* the second after the games of the first with a playtime not lower.
MergeByPlaytime(first, second) ==
  LET p == PlaytimesOf(first)
      q == PlaytimesOf(second)
      placeOfFirst(i) == i + Cardinality({j \in 1..Len(second) : q[j] > p[i]})
      placeOfSecond(j) == j + Cardinality({i \in 1..Len(first) : p[i] >= q[j]})
      merged == [k \in 1..(Len(first) + Len(second)) |->
                  IF \E i \in 1..Len(first) : placeOfFirst(i) = k
                  THEN first[CHOOSE i \in 1..Len(first) : placeOfFirst(i) = k]
                  ELSE second[CHOOSE j \in 1..Len(second) : placeOfSecond(j) = k]]
  IN SubSeq(merged, 1, Len(first) + Len(second))

\* sort((a, b) => parseFloat(b.playtimeHours) - parseFloat(a.playtimeHours)):
\* a stable sort, here by merging sorted halves.
RECURSIVE SortByPlaytimeDesc(_)
SortByPlaytimeDesc(games) ==
  IF Len(games) <= 1 THEN games
  ELSE LET half == Len(games) \div 2
       IN MergeByPlaytime(SortByPlaytimeDesc(SubSeq(games, 1, half)),
                          SortByPlaytimeDesc(SubSeq(games, half + 1, Len(games))))

\* Variant: a game with exactly 0.1 hours passes the filter.
FilterPlayed_Inclusive(games) ==
  SelectSeq(games, LAMBDA g : parseFloatHundredths(g.playtimeHours) >= 10)

\* filter(game => parseFloat(game.playtimeHours) > 0.1)
FilterPlayed(games) ==
  SelectSeq(games, LAMBDA g : parseFloatHundredths(g.playtimeHours) > 10)

\* join('\n'), by halves.
RECURSIVE JoinLines(_)
JoinLines(lines) ==
  IF Len(lines) = 0 THEN ""
  ELSE IF Len(lines) = 1 THEN lines[1]
  ELSE LET half == Len(lines) \div 2
       IN JoinLines(SubSeq(lines, 1, half)) \o "\n" \o JoinLines(SubSeq(lines, half + 1, Len(lines)))

\* The argument of formatGamesForPrompt as it is at run time: an array, or a
\* value that is no array (null, undefined).
JsAbsent == [absent |-> TRUE]

JsArray(items) == [absent |-> FALSE, items |-> items]

\* Variant: a list whose games are all filtered out is answered like an
\* empty one.
formatGamesForPrompt_OneSentinel(games) ==
  IF games.absent \/ Len(games.items) = 0
  THEN "The user has no games or the data is unavailable."
  ELSE LET sorted == SortByPlaytimeDesc(FilterPlayed(games.items))
           relevantGames == SubSeq(sorted, 1, IF Len(sorted) < MAX_GAMES_IN_PROMPT
                                              THEN Len(sorted) ELSE MAX_GAMES_IN_PROMPT)
       IN IF Len(relevantGames) = 0
          THEN "The user has no games or the data is unavailable."
          ELSE JoinLines([i \in 1..Len(relevantGames) |->
                 "- " \o relevantGames[i].name \o ": " \o relevantGames[i].playtimeHours])

formatGamesForPrompt(games) ==
  IF games.absent \/ Len(games.items) = 0
  THEN "The user has no games or the data is unavailable."
  ELSE LET sorted == SortByPlaytimeDesc(FilterPlayed(games.items))
           relevantGames == SubSeq(sorted, 1, IF Len(sorted) < MAX_GAMES_IN_PROMPT
                                              THEN Len(sorted) ELSE MAX_GAMES_IN_PROMPT)
       IN IF Len(relevantGames) = 0
          THEN "The user owns games, but none have significant playtime recorded."
          ELSE JoinLines([i \in 1..Len(relevantGames) |->
                 "- " \o relevantGames[i].name \o ": " \o relevantGames[i].playtimeHours])

constructAnalysisPrompt(gameDataString) ==
  << [role |-> "system", content |-> "promptV3"],
     [role |-> "user", content |-> "game data:\n" \o gameDataString \o "\nbegin:"] >>

\* What openai.chat.completions.create can do: open a stream of chunks (a
\* chunk carries a delta, possibly empty; the iteration may throw), or throw.
Delta(content) == [type |-> "delta", content |-> content]

StreamError == [type |-> "error"]

OpenAiOutcomes ==
  { [opened |-> TRUE, chunks |-> <<Delta("He"), Delta("")>>],
    [opened |-> TRUE, chunks |-> <<Delta("He"), StreamError>>],
    [opened |-> FALSE, error |-> [hasResponse |-> TRUE, hasRequest |-> TRUE]],
    [opened |-> FALSE, error |-> [hasResponse |-> FALSE, hasRequest |-> TRUE]],
    [opened |-> FALSE, error |-> [hasResponse |-> FALSE, hasRequest |-> FALSE]] }

(***************************************************************************)
(* Cache Store: the steam_games_cache table, a set of rows                 *)
(***************************************************************************)
\* db.select().from(steamGamesCache).where(eq(steamId, id)).limit(1)
SelectBySteamId(tbl, id) ==
  LET matching == {row \in tbl : row.steamId = id}
  IN IF matching = {} THEN <<>> ELSE <<CHOOSE row \in matching : TRUE>>

\* Variant: a plain insert, no conflict clause and no unique key.
Upsert_PlainInsert(tbl, row) == tbl \cup {row}

\* Variant: on conflict only cachedAt is set.
Upsert_StampOnly(tbl, row) ==
  IF \E old \in tbl : old.steamId = row.steamId
  THEN {IF old.steamId = row.steamId
        THEN [old EXCEPT !.cachedAt = row.cachedAt]
        ELSE old : old \in tbl}
  ELSE tbl \cup {row}

\* Variant: onConflictDoNothing, the first write wins.
Upsert_DoNothing(tbl, row) ==
  IF \E old \in tbl : old.steamId = row.steamId
  THEN tbl
  ELSE tbl \cup {row}

\* Variant: on conflict only gameData is set; the old cachedAt stays.
Upsert_PayloadOnly(tbl, row) ==
  IF \E old \in tbl : old.steamId = row.steamId
  THEN {IF old.steamId = row.steamId
        THEN [old EXCEPT !.gameData = row.gameData]
        ELSE old : old \in tbl}
  ELSE tbl \cup {row}

\* db.insert(...).values(row).onConflictDoUpdate({target: steamId, set: {gameData, cachedAt}})
Upsert(tbl, row) ==
  IF \E old \in tbl : old.steamId = row.steamId
  THEN {IF old.steamId = row.steamId
        THEN [old EXCEPT !.gameData = row.gameData, !.cachedAt = row.cachedAt]
        ELSE old : old \in tbl}
  ELSE tbl \cup {row}

(***************************************************************************)
(* State                                                                   *)
(***************************************************************************)
VARIABLES
  steamGamesCache,  \* the table: a set of rows [steamId, gameData, cachedAt]
  clock,            \* Date.now(), in ms
  ticks,            \* number of clock steps taken
  req,              \* per request slot: route, parameters, position, locals
  response,         \* per request slot: the HTTP response sent, or NoResponse
  lastWrite,        \* per user: the values of the upsert applied last, or NoWrite
  hitsSinceWrite,   \* per user: the gameCounts of the cache answers given
                    \* since the last upsert for the user
  probe,            \* a function of the program applied on its own: its name,
                    \* its argument and, once applied, its result
  kvStore           \* the MY_KV namespace of the key-value variant of
                    \* GET /games: a set of [key, value, expiration]

vars ==
  <<steamGamesCache, clock, ticks, req, response, lastWrite, hitsSinceWrite, probe, kvStore>>

NoResponse == [status |-> 0]

NoWrite == [written |-> FALSE]

NoHits == <<>>

\* The history of cache answers keeps the last two.
RecordHit(hits, gameCount) ==
  IF Len(hits) < 2 THEN Append(hits, gameCount) ELSE <<hits[2], gameCount>>

NoReply == [settled |-> "none"]

NoProbe == [fn |-> "none"]

\* route, steamId, apiKey: the request; pc: the await the handler is at;
\* dateNow: Date.now() as read for the expiry threshold;
\* cacheExpiryThreshold, cachedResult, freshGameData, now, messages, content:
\* the handler's locals; stream: the chunks the completion stream has yet to
\* deliver; received: the chunks it has delivered; reply: what the upstream
\* call answered; did: the effects performed.
IdleReq ==
  [route |-> "none", steamId |-> <<>>, apiKey |-> FALSE, pc |-> "idle",
   dateNow |-> 0, cacheExpiryThreshold |-> 0, cachedResult |-> <<>>, reply |-> NoReply,
   freshGameData |-> <<>>, now |-> 0, messages |-> <<>>, stream |-> <<>>,
   received |-> <<>>, content |-> "", did |-> <<>>]

\* The entry of the second user, cached at time 0.
SeedRow ==
  [steamId |-> ID_B, gameData |-> formatGameData(<<GameA, GameB>>), cachedAt |-> 0]

\* The worker before the first request.
NoRequests ==
  /\ steamGamesCache = {SeedRow}
  /\ clock = 0
  /\ ticks = 0
  /\ req = [r \in Reqs |-> IdleReq]
  /\ response = [r \in Reqs |-> NoResponse]
  /\ lastWrite = [id \in ValidIds |-> NoWrite]
  /\ hitsSinceWrite = [id \in ValidIds |-> NoHits]
  /\ kvStore = {}

Init ==
  /\ NoRequests
  /\ probe = NoProbe

HttpError(status, message) == [status |-> status, message |-> message]

Json(body) == [status |-> 200, body |-> body]

\* The handler returns or throws: the response is sent and the locals die
\* (the request keeps its parameters and its effects).
Done(rq) ==
  [IdleReq EXCEPT !.route = rq.route, !.steamId = rq.steamId, !.did = rq.did, !.pc = "done"]

\* A request answered from the cache also keeps the time of its check, and
\* one whose Steam call failed keeps the reply.
DoneWithCheck(rq) ==
  [Done(rq) EXCEPT !.dateNow = rq.dateNow, !.cacheExpiryThreshold = rq.cacheExpiryThreshold]

DoneWithReply(rq) == [Done(rq) EXCEPT !.reply = rq.reply]

\* A request rejected by a precheck keeps the credential it was checked with.
DoneAtEntry(rq) == [Done(rq) EXCEPT !.apiKey = rq.apiKey]

Finish(r, rq, resp) ==
  /\ req' = [req EXCEPT ![r] = rq]
  /\ response' = [response EXCEPT ![r] = resp]

\* A new request takes the lowest slot that runs no handler.
Free(r) ==
  /\ req[r].pc \in {"idle", "done"}
  /\ \A other \in Reqs : other < r => req[other].pc \notin {"idle", "done"}

(***************************************************************************)
(* The clock                                                               *)
(***************************************************************************)
Tick ==
  /\ ticks < MaxTicks
  /\ \E d \in TickSteps :
       /\ clock + d <= MaxNow
       /\ clock' = clock + d
  /\ ticks' = ticks + 1
  /\ UNCHANGED <<steamGamesCache, req, response, lastWrite, hitsSinceWrite, probe, kvStore>>

(***************************************************************************)
(* GET /api/games/:steamid                                                 *)
(***************************************************************************)
\* Variant: the boundary instant is not yet expired.
isExpired_Strict(cachedAt, cacheExpiryThreshold) == cachedAt < cacheExpiryThreshold

\* const isExpired = cachedEntry.cachedAt <= cacheExpiryThreshold
isExpired(cachedAt, cacheExpiryThreshold) == cachedAt <= cacheExpiryThreshold

\* Variant: the expiry test only, as before the zero-count rule was added.
CacheUsable_ExpiryOnly(cachedEntry, cacheExpiryThreshold) ==
  ~isExpired(cachedEntry.cachedAt, cacheExpiryThreshold)

\* if (!isExpired && gameCount > 0)
CacheUsable(cachedEntry, cacheExpiryThreshold) ==
  /\ ~isExpired(cachedEntry.cachedAt, cacheExpiryThreshold)
  /\ Len(cachedEntry.gameData) > 0

CacheHitSource == "cache-d1"

\* Variant: the TTL subtracted in seconds from a time in milliseconds.
ExpiryThreshold_Seconds(dateNow) == dateNow - CACHE_TTL_SECONDS

\* new Date(Date.now() - CACHE_TTL_SECONDS * 1000)
ExpiryThreshold(dateNow) == dateNow - CACHE_TTL_SECONDS * 1000

\* Variant: the number of rows selected instead of the number of games.
CacheHitCount_Rows(cachedResult) == Len(cachedResult)

\* cachedEntry.gameData.length
CacheHitCount(cachedResult) == Len(cachedResult[1].gameData)

\* Variant: an empty result is not cached.
StoreFresh_SkipEmpty(tbl, steamId, freshGameData, now) ==
  IF freshGameData = <<>>
  THEN tbl
  ELSE Upsert(tbl, [steamId |-> steamId, gameData |-> freshGameData, cachedAt |-> now])

\* Variant: the row is keyed by the key-value design's namespaced cache key.
StoreFresh_CacheKey(tbl, steamId, freshGameData, now) ==
  Upsert(tbl, [steamId |-> <<"steamgames:">> \o steamId, gameData |-> freshGameData,
               cachedAt |-> now])

\* Variant: an empty result removes the user's entry instead of replacing it.
StoreFresh_DropEmpty(tbl, steamId, freshGameData, now) ==
  IF Len(freshGameData) = 0
  THEN {row \in tbl : row.steamId # steamId}
  ELSE Upsert(tbl, [steamId |-> steamId, gameData |-> freshGameData, cachedAt |-> now])

\* insert(...).values({steamId, gameData, cachedAt}).onConflictDoUpdate(...)
StoreFresh(tbl, steamId, freshGameData, now) ==
  Upsert(tbl, [steamId |-> steamId, gameData |-> freshGameData, cachedAt |-> now])

CacheHitBody(steamId, gameCount) ==
  [dataId |-> steamId, source |-> CacheHitSource, gameCount |-> gameCount,
   message |-> "Data retrieved from cache."]

\* Variant: the key-value design's namespaced cache key as dataId.
ApiBody_CacheKey(steamId, freshGameCount) ==
  [dataId |-> <<"steamgames:">> \o steamId, source |-> "api", gameCount |-> freshGameCount,
   message |-> "Fetched fresh data from Steam API and stored in cache. Games found: "
               \o ToString(freshGameCount) \o "."]

ApiBody(steamId, freshGameCount) ==
  [dataId |-> steamId, source |-> "api", gameCount |-> freshGameCount,
   message |-> "Fetched fresh data from Steam API and stored in cache. Games found: "
               \o ToString(freshGameCount) \o "."]

\* Variant: the credential is checked before the identifier.
GamesStart_KeyFirst(r) ==
  /\ Free(r)
  /\ \E steamId \in SteamIdParams, apiKey \in BOOLEAN :
       LET rq == [IdleReq EXCEPT !.route = "games", !.steamId = steamId, !.apiKey = apiKey]
       IN IF ~apiKey
          THEN Finish(r, DoneAtEntry(rq), HttpError(500, "Server configuration error: API key missing."))
          ELSE IF ~isValidSteamId64(steamId)
          THEN Finish(r, DoneAtEntry(rq), HttpError(400, "Invalid SteamID format. Please provide a 64-bit SteamID."))
          ELSE /\ req' = [req EXCEPT ![r] =
                    [rq EXCEPT !.pc = "select", !.dateNow = clock,
                               !.cacheExpiryThreshold = ExpiryThreshold(clock)]]
               /\ response' = [response EXCEPT ![r] = NoResponse]
  /\ UNCHANGED <<steamGamesCache, clock, ticks, lastWrite, hitsSinceWrite, probe, kvStore>>

\* Entry of the handler up to the first await (the select).
GamesStart(r) ==
  /\ Free(r)
  /\ \E steamId \in SteamIdParams, apiKey \in BOOLEAN :
       LET rq == [IdleReq EXCEPT !.route = "games", !.steamId = steamId, !.apiKey = apiKey]
       IN IF ~isValidSteamId64(steamId)
          THEN Finish(r, DoneAtEntry(rq), HttpError(400, "Invalid SteamID format. Please provide a 64-bit SteamID."))
          ELSE IF ~apiKey
          THEN Finish(r, DoneAtEntry(rq), HttpError(500, "Server configuration error: API key missing."))
          ELSE /\ req' = [req EXCEPT ![r] =
                    [rq EXCEPT !.pc = "select", !.dateNow = clock,
                               !.cacheExpiryThreshold = ExpiryThreshold(clock)]]
               /\ response' = [response EXCEPT ![r] = NoResponse]
  /\ UNCHANGED <<steamGamesCache, clock, ticks, lastWrite, hitsSinceWrite, probe, kvStore>>

\* Variant: a cache hit refreshes the timestamp of the entry it served.
GamesSelect_Touch(r) ==
  /\ req[r].route = "games"
  /\ req[r].pc = "select"
  /\ \E dbOk \in BOOLEAN :
       LET cachedResult == SelectBySteamId(steamGamesCache, req[r].steamId)
           failed == [req[r] EXCEPT !.did = Append(@, "select-failed")]
           rq == [req[r] EXCEPT !.cachedResult = cachedResult,
                    !.did = Append(@, IF Len(cachedResult) > 0 THEN "select:found" ELSE "select:absent")]
       IN IF ~dbOk
          THEN /\ Finish(r, Done(failed), HttpError(500, "An internal server error occurred."))
               /\ UNCHANGED <<hitsSinceWrite, steamGamesCache>>
          ELSE IF /\ Len(cachedResult) > 0
                  /\ CacheUsable(cachedResult[1], rq.cacheExpiryThreshold)
          THEN /\ Finish(r, DoneWithCheck(rq), Json(CacheHitBody(rq.steamId, CacheHitCount(cachedResult))))
               /\ hitsSinceWrite' = [hitsSinceWrite EXCEPT ![rq.steamId] =
                    RecordHit(@, CacheHitCount(cachedResult))]
               /\ steamGamesCache' = Upsert(steamGamesCache,
                    [cachedResult[1] EXCEPT !.cachedAt = clock])
          ELSE /\ req' = [req EXCEPT ![r] = [rq EXCEPT !.pc = "fetch"]]
               /\ UNCHANGED <<response, hitsSinceWrite, steamGamesCache>>
  /\ UNCHANGED <<clock, ticks, lastWrite, probe, kvStore>>

\* The select resolves (or rejects); on a usable entry the handler answers,
\* otherwise it goes on to call the Steam API.
GamesSelect(r) ==
  /\ req[r].route = "games"
  /\ req[r].pc = "select"
  /\ \E dbOk \in BOOLEAN :
       LET cachedResult == SelectBySteamId(steamGamesCache, req[r].steamId)
           failed == [req[r] EXCEPT !.did = Append(@, "select-failed")]
           rq == [req[r] EXCEPT !.cachedResult = cachedResult,
                    !.did = Append(@, IF Len(cachedResult) > 0 THEN "select:found" ELSE "select:absent")]
       IN IF ~dbOk
          THEN /\ Finish(r, Done(failed), HttpError(500, "An internal server error occurred."))
               /\ UNCHANGED hitsSinceWrite
          ELSE IF /\ Len(cachedResult) > 0
                  /\ CacheUsable(cachedResult[1], rq.cacheExpiryThreshold)
          THEN /\ Finish(r, DoneWithCheck(rq), Json(CacheHitBody(rq.steamId, CacheHitCount(cachedResult))))
               /\ hitsSinceWrite' = [hitsSinceWrite EXCEPT ![rq.steamId] =
                    RecordHit(@, CacheHitCount(cachedResult))]
          ELSE /\ req' = [req EXCEPT ![r] = [rq EXCEPT !.pc = "fetch"]]
               /\ UNCHANGED <<response, hitsSinceWrite>>
  /\ UNCHANGED <<steamGamesCache, clock, ticks, lastWrite, probe, kvStore>>

\* Variant: without the inner try/catch a failure of the Steam call reaches
\* the outer catch and is answered 500.
GamesFetch_Rethrow(r) ==
  /\ req[r].route = "games"
  /\ req[r].pc = "fetch"
  /\ \E reply \in AxiosReplies :
       LET rq == [req[r] EXCEPT !.did = Append(@, "steam"), !.reply = reply]
           result == getFormattedSteamGames(rq.apiKey, rq.steamId, reply)
       IN IF ~result.ok
          THEN Finish(r, DoneWithReply(rq), HttpError(500, "An internal server error occurred."))
          ELSE /\ req' = [req EXCEPT ![r] =
                    [rq EXCEPT !.pc = "insert", !.freshGameData = result.games, !.now = clock,
                               !.dateNow = 0, !.cacheExpiryThreshold = 0, !.cachedResult = <<>>]]
               /\ UNCHANGED response
  /\ UNCHANGED <<steamGamesCache, clock, ticks, lastWrite, hitsSinceWrite, probe, kvStore>>

\* Variant: the handler answers as soon as the Steam call has succeeded and
\* does not wait for the upsert.
GamesFetch_AnswerFirst(r) ==
  /\ req[r].route = "games"
  /\ req[r].pc = "fetch"
  /\ \E reply \in AxiosReplies :
       LET rq == [req[r] EXCEPT !.did = Append(@, "steam"), !.reply = reply]
           result == getFormattedSteamGames(rq.apiKey, rq.steamId, reply)
       IN IF ~result.ok
          THEN Finish(r, DoneWithReply(rq), HttpError(502, "Failed to fetch data from Steam API: " \o result.error.message))
          ELSE Finish(r, Done(rq), Json(ApiBody(rq.steamId, Len(result.games))))
  /\ UNCHANGED <<steamGamesCache, clock, ticks, lastWrite, hitsSinceWrite, probe, kvStore>>

\* Variant: the entry is stamped with the time of the cache check instead
\* of a time taken after the fetch.
GamesFetch_CheckStamp(r) ==
  /\ req[r].route = "games"
  /\ req[r].pc = "fetch"
  /\ \E reply \in AxiosReplies :
       LET rq == [req[r] EXCEPT !.did = Append(@, "steam"), !.reply = reply]
           result == getFormattedSteamGames(rq.apiKey, rq.steamId, reply)
       IN IF ~result.ok
          THEN Finish(r, DoneWithReply(rq), HttpError(502, "Failed to fetch data from Steam API: " \o result.error.message))
          ELSE /\ req' = [req EXCEPT ![r] =
                    [rq EXCEPT !.pc = "insert", !.freshGameData = result.games, !.now = req[r].dateNow,
                               !.dateNow = 0, !.cacheExpiryThreshold = 0, !.cachedResult = <<>>]]
               /\ UNCHANGED response
  /\ UNCHANGED <<steamGamesCache, clock, ticks, lastWrite, hitsSinceWrite, probe, kvStore>>

\* Variant: a first failure of the Steam call is followed by a second call.
GamesFetch_Retry(r) ==
  /\ req[r].route = "games"
  /\ req[r].pc = "fetch"
  /\ \E reply \in AxiosReplies :
       LET rq == [req[r] EXCEPT !.did = Append(@, "steam"), !.reply = reply]
           result == getFormattedSteamGames(rq.apiKey, rq.steamId, reply)
       IN IF ~result.ok /\ req[r].reply = NoReply
          THEN /\ req' = [req EXCEPT ![r] = rq]
               /\ UNCHANGED response
          ELSE IF ~result.ok
          THEN Finish(r, DoneWithReply(rq), HttpError(502, "Failed to fetch data from Steam API: " \o result.error.message))
          ELSE /\ req' = [req EXCEPT ![r] =
                    [rq EXCEPT !.pc = "insert", !.freshGameData = result.games, !.now = clock,
                               !.dateNow = 0, !.cacheExpiryThreshold = 0, !.cachedResult = <<>>]]
               /\ UNCHANGED response
  /\ UNCHANGED <<steamGamesCache, clock, ticks, lastWrite, hitsSinceWrite, probe, kvStore>>

\* The Steam API call settles; on success the handler takes the timestamp and
\* issues the upsert (the locals of the cache check are dead from here on).
GamesFetch(r) ==
  /\ req[r].route = "games"
  /\ req[r].pc = "fetch"
  /\ \E reply \in AxiosReplies :
       LET rq == [req[r] EXCEPT !.did = Append(@, "steam"), !.reply = reply]
           result == getFormattedSteamGames(rq.apiKey, rq.steamId, reply)
       IN IF ~result.ok
          THEN Finish(r, DoneWithReply(rq), HttpError(502, "Failed to fetch data from Steam API: " \o result.error.message))
          ELSE /\ req' = [req EXCEPT ![r] =
                    [rq EXCEPT !.pc = "insert", !.freshGameData = result.games, !.now = clock,
                               !.dateNow = 0, !.cacheExpiryThreshold = 0, !.cachedResult = <<>>]]
               /\ UNCHANGED response
  /\ UNCHANGED <<steamGamesCache, clock, ticks, lastWrite, hitsSinceWrite, probe, kvStore>>

\* Variant: when the database rejects the upsert the handler goes back to
\* the Steam call instead of answering.
GamesInsert_Refetch(r) ==
  /\ req[r].route = "games"
  /\ req[r].pc = "insert"
  /\ \E dbOk \in BOOLEAN :
       LET rq == [req[r] EXCEPT !.did = Append(@, "insert")]
       IN IF ~dbOk
          THEN /\ req' = [req EXCEPT ![r] =
                    [@ EXCEPT !.pc = "fetch", !.did = <<@[1]>>, !.freshGameData = <<>>, !.now = 0]]
               /\ UNCHANGED <<response, steamGamesCache, lastWrite, hitsSinceWrite>>
          ELSE /\ steamGamesCache' = StoreFresh(steamGamesCache, rq.steamId, rq.freshGameData, rq.now)
               /\ lastWrite' = [lastWrite EXCEPT ![rq.steamId] =
                    [written |-> TRUE, gameData |-> rq.freshGameData, cachedAt |-> rq.now]]
               /\ hitsSinceWrite' = [hitsSinceWrite EXCEPT ![rq.steamId] = NoHits]
               /\ Finish(r, Done(rq), Json(ApiBody(rq.steamId, Len(rq.freshGameData))))
  /\ UNCHANGED <<clock, ticks, probe, kvStore>>

\* The upsert is applied by the database (or rejects) and the handler answers.
GamesInsert(r) ==
  /\ req[r].route = "games"
  /\ req[r].pc = "insert"
  /\ \E dbOk \in BOOLEAN :
       LET rq == [req[r] EXCEPT !.did = Append(@, IF dbOk THEN "insert" ELSE "insert-failed")]
       IN IF ~dbOk
          THEN /\ Finish(r, Done(rq), HttpError(500, "An internal server error occurred."))
               /\ UNCHANGED <<steamGamesCache, lastWrite, hitsSinceWrite>>
          ELSE /\ steamGamesCache' = StoreFresh(steamGamesCache, rq.steamId, rq.freshGameData, rq.now)
               /\ lastWrite' = [lastWrite EXCEPT ![rq.steamId] =
                    [written |-> TRUE, gameData |-> rq.freshGameData, cachedAt |-> rq.now]]
               /\ hitsSinceWrite' = [hitsSinceWrite EXCEPT ![rq.steamId] = NoHits]
               /\ Finish(r, Done(rq), Json(ApiBody(rq.steamId, Len(rq.freshGameData))))
  /\ UNCHANGED <<clock, ticks, probe, kvStore>>

(***************************************************************************)
(* GET /api/user/:steamid                                                  *)
(***************************************************************************)
UserBody(userInfo) ==
  [steamId |-> userInfo.steamId, personaName |-> userInfo.personaName,
   profileUrl |-> userInfo.profileUrl, avatarIconUrl |-> userInfo.avatarIconUrl,
   avatarMediumUrl |-> userInfo.avatarMediumUrl, avatarFullUrl |-> userInfo.avatarFullUrl,
   personaState |-> userInfo.personaState, visibilityState |-> userInfo.visibilityState]

UserStart(r) ==
  /\ Free(r)
  /\ \E steamId \in SteamIdParams, apiKey \in BOOLEAN :
       LET rq == [IdleReq EXCEPT !.route = "user", !.steamId = steamId, !.apiKey = apiKey]
       IN IF ~isValidSteamId64(steamId)
          THEN Finish(r, DoneAtEntry(rq), HttpError(400, "Invalid SteamID format. Please provide a 64-bit SteamID."))
          ELSE IF ~apiKey
          THEN Finish(r, DoneAtEntry(rq), HttpError(500, "Server configuration error: API key missing."))
          ELSE /\ req' = [req EXCEPT ![r] = [rq EXCEPT !.pc = "profile"]]
               /\ response' = [response EXCEPT ![r] = NoResponse]
  /\ UNCHANGED <<steamGamesCache, clock, ticks, lastWrite, hitsSinceWrite, probe, kvStore>>

\* Variant: the catch does not look for "User not found" in the message.
UserFetch_NoNotFound(r) ==
  /\ req[r].route = "user"
  /\ req[r].pc = "profile"
  /\ \E reply \in PlayerReplies :
       LET rq == [req[r] EXCEPT !.did = Append(@, "steam-user"), !.reply = reply]
           result == getSteamUserInfo(rq.apiKey, rq.steamId, reply)
       IN IF result.ok
          THEN Finish(r, DoneWithReply(rq), Json(UserBody(result.userInfo)))
          ELSE Finish(r, DoneWithReply(rq), HttpError(502, "Failed to fetch user info from Steam API: " \o result.error.message))
  /\ UNCHANGED <<steamGamesCache, clock, ticks, lastWrite, hitsSinceWrite, probe, kvStore>>

\* The Steam profile call settles and the handler answers (the request
\* keeps the reply).
UserFetch(r) ==
  /\ req[r].route = "user"
  /\ req[r].pc = "profile"
  /\ \E reply \in PlayerReplies :
       LET rq == [req[r] EXCEPT !.did = Append(@, "steam-user"), !.reply = reply]
           result == getSteamUserInfo(rq.apiKey, rq.steamId, reply)
       IN IF result.ok
          THEN Finish(r, DoneWithReply(rq), Json(UserBody(result.userInfo)))
          ELSE IF result.error = ErrUserNotFound
          THEN Finish(r, DoneWithReply(rq), HttpError(404, "User not found for Steam ID"))
          ELSE Finish(r, DoneWithReply(rq), HttpError(502, "Failed to fetch user info from Steam API: " \o result.error.message))
  /\ UNCHANGED <<steamGamesCache, clock, ticks, lastWrite, hitsSinceWrite, probe, kvStore>>

(***************************************************************************)
(* GET /api/model                                                          *)
(***************************************************************************)
ModelGet(r) ==
  /\ Free(r)
  /\ Finish(r, Done([IdleReq EXCEPT !.route = "model"]),
            Json([modelName |-> MODEL, version |-> "v1.2.0413"]))
  /\ UNCHANGED <<steamGamesCache, clock, ticks, lastWrite, hitsSinceWrite, probe, kvStore>>

(***************************************************************************)
(* JSON texts and the values read from the gameData column                 *)
(***************************************************************************)
\* JSON.stringify of an array: the text opens and closes with a bracket
\* and holds one value per element (so it is never the empty string).
JsonStringify(items) ==
  <<[tok |-> "["]>> \o [i \in 1..Len(items) |-> [tok |-> "value", value |-> items[i]]]
    \o <<[tok |-> "]"]>>

\* JSON.parse of such a text: the array of its values.
JsonParse(text) == [i \in 1..(Len(text) - 2) |-> text[i + 1].value]

\* A value as typeof and Array.isArray see it: a string (with its text), an
\* array (with its elements), another object, null (typeof null is
\* 'object'), a number, a boolean.
JsValue(type, isNull, isArray, items, text) ==
  [typeof |-> type, isNull |-> isNull, isArray |-> isArray, items |-> items, text |-> text]

JsString(text) == JsValue("string", FALSE, FALSE, <<>>, text)

JsArrayObject(items) == JsValue("object", FALSE, TRUE, items, <<>>)

JsPlainObject == JsValue("object", FALSE, FALSE, <<>>, <<>>)

JsNull == JsValue("object", TRUE, FALSE, <<>>, <<>>)

JsNumber == JsValue("number", FALSE, FALSE, <<>>, <<>>)

JsBoolean == JsValue("boolean", FALSE, FALSE, <<>>, <<>>)

\* The text is that of an array: a bracket, values, a bracket.
IsArrayText(text) ==
  /\ Len(text) >= 2
  /\ text[1].tok = "[" /\ text[Len(text)].tok = "]"
  /\ \A i \in 2..(Len(text) - 1) : text[i].tok = "value"

\* JSON.parse of any text: the value it denotes, or a SyntaxError.
JsonParseValue(text) ==
  IF IsArrayText(text) THEN [threw |-> FALSE, value |-> JsArrayObject(JsonParse(text))]
  ELSE IF Len(text) = 2 /\ text[1].tok = "{" /\ text[2].tok = "}"
  THEN [threw |-> FALSE, value |-> JsPlainObject]
  ELSE IF Len(text) = 1 /\ text[1].tok = "null" THEN [threw |-> FALSE, value |-> JsNull]
  ELSE IF Len(text) = 1 /\ text[1].tok = "number" THEN [threw |-> FALSE, value |-> JsNumber]
  ELSE IF Len(text) = 1 /\ text[1].tok = "string" THEN [threw |-> FALSE, value |-> JsString(<<>>)]
  ELSE [threw |-> TRUE, value |-> JsNull]

\* results[0].gameData.  The json-mode column hands an entry written by
\* the worker back as the array that was stored; an entry put in the table
\* by other means holds whatever value its text denotes.
RawGameData(row) ==
  IF "gameData" \in DOMAIN row THEN JsArrayObject(row.gameData) ELSE row.rawGameData

\* Variant: a payload that is no array is not rejected but taken as a list
\* without games.
ParseGameData_Lenient(rawGameData) ==
  LET parsed == IF rawGameData.typeof = "string" THEN JsonParseValue(rawGameData.text)
                ELSE [threw |-> FALSE, value |-> rawGameData]
  IN IF parsed.threw \/ ~parsed.value.isArray
     THEN [threw |-> FALSE, gameData |-> <<>>]
     ELSE [threw |-> FALSE, gameData |-> parsed.value.items]

\* The parse block of GET /analyze: a string is parsed, a non-null object
\* is taken as it is, anything else throws; what results must be an array.
\* Every throw of the block is caught by its catch.
ParseGameData(rawGameData) ==
  LET parsed == IF rawGameData.typeof = "string" THEN JsonParseValue(rawGameData.text)
                ELSE IF rawGameData.typeof = "object" /\ ~rawGameData.isNull
                THEN [threw |-> FALSE, value |-> rawGameData]
                ELSE [threw |-> TRUE, value |-> rawGameData]
  IN IF parsed.threw \/ ~parsed.value.isArray
     THEN [threw |-> TRUE, gameData |-> <<>>]
     ELSE [threw |-> FALSE, gameData |-> parsed.value.items]

(***************************************************************************)
(* GET /api/analyze/:steamid                                               *)
(***************************************************************************)
StreamResponse(chunks, open) == [status |-> 200, streamed |-> chunks, open |-> open]

AnalyzeStart(r) ==
  /\ Free(r)
  /\ \E steamId \in SteamIdParams, openaiApiKey \in BOOLEAN :
       LET rq == [IdleReq EXCEPT !.route = "analyze", !.steamId = steamId, !.apiKey = openaiApiKey]
       IN IF steamId = <<>>
          THEN Finish(r, DoneAtEntry(rq), HttpError(400, "Missing dataId parameter."))
          ELSE IF ~isValidSteamId64(steamId)
          THEN Finish(r, DoneAtEntry(rq), HttpError(400, "Invalid SteamID format. Please provide a 64-bit SteamID."))
          ELSE IF ~openaiApiKey
          THEN Finish(r, DoneAtEntry(rq), HttpError(500, "Server configuration error: OpenAI API key missing."))
          ELSE /\ req' = [req EXCEPT ![r] = [rq EXCEPT !.pc = "select"]]
               /\ response' = [response EXCEPT ![r] = NoResponse]
  /\ UNCHANGED <<steamGamesCache, clock, ticks, lastWrite, hitsSinceWrite, probe, kvStore>>

\* Variant: a missing entry is treated as an empty game list and the
\* completion call is issued all the same.
AnalyzeSelect_NoEntryCheck(r) ==
  /\ req[r].route = "analyze"
  /\ req[r].pc = "select"
  /\ \E dbOk \in BOOLEAN :
       LET results == SelectBySteamId(steamGamesCache, req[r].steamId)
           failed == [req[r] EXCEPT !.did = Append(@, "select-failed")]
           rq == [req[r] EXCEPT
                    !.did = Append(@, IF Len(results) > 0 THEN "select:found" ELSE "select:absent")]
           gameData == IF Len(results) > 0 THEN results[1].gameData ELSE <<>>
       IN IF ~dbOk
          THEN Finish(r, Done(failed), HttpError(500, "An internal server error occurred during analysis."))
          ELSE /\ req' = [req EXCEPT ![r] =
                    [rq EXCEPT !.pc = "create",
                               !.messages = constructAnalysisPrompt(formatGamesForPrompt(JsArray(gameData)))]]
               /\ UNCHANGED response
  /\ UNCHANGED <<steamGamesCache, clock, ticks, lastWrite, hitsSinceWrite, probe, kvStore>>

\* Variant: the entry is put to the test of GET /games (not expired, not
\* empty) and an unusable one is answered like a missing one.
AnalyzeSelect_FreshOnly(r) ==
  /\ req[r].route = "analyze"
  /\ req[r].pc = "select"
  /\ \E dbOk \in BOOLEAN :
       LET results == SelectBySteamId(steamGamesCache, req[r].steamId)
           failed == [req[r] EXCEPT !.did = Append(@, "select-failed")]
           rq == [req[r] EXCEPT
                    !.did = Append(@, IF Len(results) > 0 THEN "select:found" ELSE "select:absent")]
       IN IF ~dbOk
          THEN Finish(r, Done(failed), HttpError(500, "An internal server error occurred during analysis."))
          ELSE IF Len(results) = 0 \/ ~CacheUsable(results[1], ExpiryThreshold(clock))
          THEN Finish(r, Done(rq), HttpError(404, "Game data not found for SteamID. Please fetch data first via /api/games/"))
          ELSE /\ req' = [req EXCEPT ![r] =
                    [rq EXCEPT !.pc = "create",
                               !.messages = constructAnalysisPrompt(formatGamesForPrompt(JsArray(results[1].gameData)))]]
               /\ UNCHANGED response
  /\ UNCHANGED <<steamGamesCache, clock, ticks, lastWrite, hitsSinceWrite, probe, kvStore>>

\* The select resolves; the payload of an entry is parsed, the prompt is
\* built from it and the completion call is issued.
AnalyzeSelect(r) ==
  /\ req[r].route = "analyze"
  /\ req[r].pc = "select"
  /\ \E dbOk \in BOOLEAN :
       LET results == SelectBySteamId(steamGamesCache, req[r].steamId)
           failed == [req[r] EXCEPT !.did = Append(@, "select-failed")]
           rq == [req[r] EXCEPT
                    !.did = Append(@, IF Len(results) > 0 THEN "select:found" ELSE "select:absent")]
       IN IF ~dbOk
          THEN Finish(r, Done(failed), HttpError(500, "An internal server error occurred during analysis."))
          ELSE IF Len(results) = 0
          THEN Finish(r, Done(rq), HttpError(404, "Game data not found for SteamID. Please fetch data first via /api/games/"))
          ELSE LET parsed == ParseGameData(RawGameData(results[1]))
               IN IF parsed.threw
                  THEN Finish(r, Done(rq), HttpError(500, "Failed to process stored game data. Data might be corrupted."))
                  ELSE /\ req' = [req EXCEPT ![r] =
                            [rq EXCEPT !.pc = "create",
                                       !.messages = constructAnalysisPrompt(formatGamesForPrompt(JsArray(parsed.gameData)))]]
                       /\ UNCHANGED response
  /\ UNCHANGED <<steamGamesCache, clock, ticks, lastWrite, hitsSinceWrite, probe, kvStore>>

\* Variant: the catch looks at error.request before error.response.
AnalyzeCreate_RequestFirst(r) ==
  /\ req[r].route = "analyze"
  /\ req[r].pc = "create"
  /\ \E outcome \in OpenAiOutcomes :
       LET rq == [req[r] EXCEPT !.did = Append(@, "openai")]
           thrown == [rq EXCEPT !.reply = outcome]
       IN IF outcome.opened
          THEN /\ req' = [req EXCEPT ![r] =
                    [rq EXCEPT !.pc = "relay", !.messages = <<>>, !.stream = outcome.chunks]]
               /\ response' = [response EXCEPT ![r] = StreamResponse(<<>>, TRUE)]
          ELSE IF outcome.error.hasRequest
          THEN Finish(r, DoneWithReply(thrown), HttpError(504, "Network error connecting to AI service."))
          ELSE IF outcome.error.hasResponse
          THEN Finish(r, DoneWithReply(thrown), HttpError(502, "Failed to get analysis from AI service: API error"))
          ELSE Finish(r, DoneWithReply(thrown), HttpError(500, "An internal server error occurred during analysis."))
  /\ UNCHANGED <<steamGamesCache, clock, ticks, lastWrite, hitsSinceWrite, probe, kvStore>>

\* openai.chat.completions.create settles: the stream is open and the
\* streaming response starts, or the call has thrown.
AnalyzeCreate(r) ==
  /\ req[r].route = "analyze"
  /\ req[r].pc = "create"
  /\ \E outcome \in OpenAiOutcomes :
       LET rq == [req[r] EXCEPT !.did = Append(@, "openai")]
           thrown == [rq EXCEPT !.reply = outcome]
       IN IF outcome.opened
          THEN /\ req' = [req EXCEPT ![r] =
                    [rq EXCEPT !.pc = "relay", !.messages = <<>>, !.stream = outcome.chunks]]
               /\ response' = [response EXCEPT ![r] = StreamResponse(<<>>, TRUE)]
          ELSE IF outcome.error.hasResponse
          THEN Finish(r, DoneWithReply(thrown), HttpError(502, "Failed to get analysis from AI service: API error"))
          ELSE IF outcome.error.hasRequest
          THEN Finish(r, DoneWithReply(thrown), HttpError(504, "Network error connecting to AI service."))
          ELSE Finish(r, DoneWithReply(thrown), HttpError(500, "An internal server error occurred during analysis."))
  /\ UNCHANGED <<steamGamesCache, clock, ticks, lastWrite, hitsSinceWrite, probe, kvStore>>

\* Variant: the write is not awaited: the loop asks for the next chunk while
\* the write of the previous one is still pending.
AnalyzeRelay_NoAwait(r) ==
  /\ req[r].route = "analyze"
  /\ req[r].pc \in {"relay", "write"}
  /\ IF req[r].stream = <<>> \/ Head(req[r].stream).type = "error"
     THEN Finish(r, Done(req[r]), StreamResponse(response[r].streamed, FALSE))
     ELSE LET content == Head(req[r].stream).content
          IN /\ req' = [req EXCEPT ![r] =
                  [@ EXCEPT !.stream = Tail(@), !.received = Append(@, Head(req[r].stream)),
                            !.content = content,
                            !.pc = IF content # "" THEN "write" ELSE "relay"]]
             /\ UNCHANGED response
  /\ UNCHANGED <<steamGamesCache, clock, ticks, lastWrite, hitsSinceWrite, probe, kvStore>>

\* One turn of the for-await loop: the next chunk arrives; a non-empty
\* content is handed to streamHelper.write, an empty one is skipped.  The
\* loop ends with the stream, or when the iteration throws: the callback of
\* streamText runs after the handler has returned the response, so the
\* catch of the handler does not see the error and the body is closed.
AnalyzeRelay(r) ==
  /\ req[r].route = "analyze"
  /\ req[r].pc = "relay"
  /\ IF req[r].stream = <<>> \/ Head(req[r].stream).type = "error"
     THEN Finish(r, Done(req[r]), StreamResponse(response[r].streamed, FALSE))
     ELSE LET content == Head(req[r].stream).content
          IN /\ req' = [req EXCEPT ![r] =
                  [@ EXCEPT !.stream = Tail(@), !.received = Append(@, Head(req[r].stream)),
                            !.content = content,
                            !.pc = IF content # "" THEN "write" ELSE "relay"]]
             /\ UNCHANGED response
  /\ UNCHANGED <<steamGamesCache, clock, ticks, lastWrite, hitsSinceWrite, probe, kvStore>>

\* Variant: the chunk is put in front of what was written before.
AnalyzeWrite_Prepend(r) ==
  /\ req[r].route = "analyze"
  /\ req[r].pc = "write"
  /\ req' = [req EXCEPT ![r] = [@ EXCEPT !.pc = "relay", !.content = ""]]
  /\ response' = [response EXCEPT ![r].streamed = <<req[r].content>> \o @]
  /\ UNCHANGED <<steamGamesCache, clock, ticks, lastWrite, hitsSinceWrite, probe, kvStore>>

\* Variant: the write resolves without the chunk reaching the caller.
AnalyzeWrite_Lost(r) ==
  /\ req[r].route = "analyze"
  /\ req[r].pc = "write"
  /\ req' = [req EXCEPT ![r] = [@ EXCEPT !.pc = "relay", !.content = ""]]
  /\ UNCHANGED response
  /\ UNCHANGED <<steamGamesCache, clock, ticks, lastWrite, hitsSinceWrite, probe, kvStore>>

\* await streamHelper.write(content) resolves: the chunk is with the caller
\* and the loop asks for the next one.
AnalyzeWrite(r) ==
  /\ req[r].route = "analyze"
  /\ req[r].pc = "write"
  /\ req' = [req EXCEPT ![r] = [@ EXCEPT !.pc = "relay", !.content = ""]]
  /\ response' = [response EXCEPT ![r].streamed = Append(@, req[r].content)]
  /\ UNCHANGED <<steamGamesCache, clock, ticks, lastWrite, hitsSinceWrite, probe, kvStore>>

Next ==
  \/ Tick
  \/ \E r \in Reqs : GamesStart(r)
  \/ \E r \in Reqs : GamesSelect(r)
  \/ \E r \in Reqs : GamesFetch(r)
  \/ \E r \in Reqs : GamesInsert(r)
  \/ \E r \in Reqs : UserStart(r)
  \/ \E r \in Reqs : UserFetch(r)
  \/ \E r \in Reqs : ModelGet(r)
  \/ \E r \in Reqs : AnalyzeStart(r)
  \/ \E r \in Reqs : AnalyzeSelect(r)
  \/ \E r \in Reqs : AnalyzeCreate(r)
  \/ \E r \in Reqs : AnalyzeRelay(r)
  \/ \E r \in Reqs : AnalyzeWrite(r)

Spec == Init /\ [][Next]_vars

(***************************************************************************)
(* Functions applied on their own: the argument is drawn at the start and  *)
(* the function is applied to it in one step.                              *)
(***************************************************************************)
Probe(fn, arg) == [fn |-> fn, arg |-> arg, applied |-> FALSE]

Applied(p, result) == [fn |-> p.fn, arg |-> p.arg, applied |-> TRUE, result |-> result]

MaxSuffix == 4

RECURSIVE SeqsUpTo(_, _)
SeqsUpTo(alphabet, n) ==
  IF n = 0 THEN {<<>>}
  ELSE LET shorter == SeqsUpTo(alphabet, n - 1)
       IN shorter \cup {Append(q, c) : q \in shorter, c \in alphabet}

\* Strings around the accepted length: fourteen digits followed by up to
\* MaxSuffix characters (digits, a letter, a blank); a non-digit in front of
\* sixteen digits; the empty string; the identifiers the routes use.
IdInputs ==
  LET fourteen == SubSeq(ID_A, 1, 14)
      sixteen == SubSeq(ID_A, 1, 16)
  IN {fourteen \o q : q \in SeqsUpTo({"0", "9", "x", " "}, MaxSuffix)}
       \cup {<<c>> \o sixteen : c \in {"x", " ", "-"}}
       \cup {<<>>, ID_A, ID_B, ID_SHORT}

ApplyIsValidSteamId64 ==
  /\ probe.fn = "isValidSteamId64"
  /\ ~probe.applied
  /\ probe' = Applied(probe, isValidSteamId64(probe.arg))
  /\ UNCHANGED <<steamGamesCache, clock, ticks, req, response, lastWrite, hitsSinceWrite, kvStore>>

MaxPromptLen == 3

MaxOver == 3

\* A FormattedGameInfo with the two fields the prompt uses.
PromptGame(name, playtimeHours) ==
  [appId |-> 0, name |-> name, playtimeHours |-> playtimeHours,
   lastPlayed |-> "Never", iconUrl |-> "No Icon URL Available"]

PromptCatalog ==
  { PromptGame("A", "0.05 hours"), PromptGame("B", "10.0 hours"), PromptGame("C", "5.0 hours"),
    PromptGame("D", "0.1 hours"), PromptGame("E", "5.0 hours"), PromptGame("F", "0.2 hours") }

\* A list of n games in no order of playtime: 0.1 to 10.2 hours, every
\* value once among the first 102 games, then again.
LongList(n) ==
  [i \in 1..n |-> PromptGame("g" \o ToString(i), Decimal1(1 + ((i * 37) % 102)) \o " hours")]

\* The lists of up to MaxPromptLen games of the catalog, the long lists of
\* MAX_GAMES_IN_PROMPT games and up to MaxOver more, and no list at all.
PromptInputs ==
  {JsArray(games) : games \in SeqsUpTo(PromptCatalog, MaxPromptLen)
                              \cup {LongList(MAX_GAMES_IN_PROMPT + k) : k \in 0..MaxOver}}
    \cup {JsAbsent}

ApplyFormatGamesForPrompt ==
  /\ probe.fn = "formatGamesForPrompt"
  /\ ~probe.applied
  /\ probe' = Applied(probe, formatGamesForPrompt(probe.arg))
  /\ UNCHANGED <<steamGamesCache, clock, ticks, req, response, lastWrite, hitsSinceWrite, kvStore>>

\* What axios.get can settle with in getOwnedSteamGames: the replies the
\* routes see and further shapes of the body.
OwnedGamesReplies ==
  AxiosReplies \cup
  { [settled |-> "resolved", data |-> [response |-> [games |-> <<GameA>>]]],
    [settled |-> "resolved", data |-> EmptyObject],
    [settled |-> "resolved", data |-> JsPrimitive("null")],
    [settled |-> "resolved", data |-> [response |-> JsPrimitive("null")]],
    [settled |-> "resolved", data |-> [response |-> JsPrimitive("true")]],
    [settled |-> "resolved", data |-> [response |-> JsPrimitive("7")]],
    [settled |-> "resolved", data |-> [response |-> [error |-> "x"]]],
    [settled |-> "resolved", data |-> [error |-> "x"]],
    [settled |-> "rejected", error |-> [isAxiosError |-> TRUE, hasResponse |-> TRUE, status |-> 403]],
    [settled |-> "rejected", error |-> [isAxiosError |-> TRUE, hasResponse |-> TRUE, status |-> 500]],
    [settled |-> "rejected", error |-> [isAxiosError |-> FALSE, hasResponse |-> FALSE, status |-> 0]] }

ApplyGetOwnedSteamGames ==
  /\ probe.fn = "getOwnedSteamGames"
  /\ ~probe.applied
  /\ probe' = Applied(probe, getOwnedSteamGames(probe.arg))
  /\ UNCHANGED <<steamGamesCache, clock, ticks, req, response, lastWrite, hitsSinceWrite, kvStore>>

MaxMinutes == 130

MaxRawLen == 3

RawGame(appid, name, minutes, lastPlayed, icon) ==
  [appid |-> appid, name |-> name, playtime_forever |-> minutes,
   rtime_last_played |-> lastPlayed, img_icon_url |-> icon]

\* Lists of one game, for every playtime up to MaxMinutes, played or never
\* played, with or without an icon; and the lists of up to MaxRawLen games
\* over four games.
RawInputs ==
  { <<RawGame(30, "c", minutes, lastPlayed, icon)>> :
      minutes \in 0..MaxMinutes, lastPlayed \in {0, 86400}, icon \in {"", "abc"} }
    \cup SeqsUpTo({GameA, GameB, RawGame(30, "c", 9, 0, ""), RawGame(40, "b", 15, 172800, "d")},
                  MaxRawLen)

ApplyFormatGameData ==
  /\ probe.fn = "formatGameData"
  /\ ~probe.applied
  /\ probe' = Applied(probe, formatGameData(probe.arg))
  /\ UNCHANGED <<steamGamesCache, clock, ticks, req, response, lastWrite, hitsSinceWrite, kvStore>>

InitFn ==
  /\ NoRequests
  /\ probe \in {Probe("isValidSteamId64", id) : id \in IdInputs}
               \cup {Probe("formatGamesForPrompt", games) : games \in PromptInputs}
               \cup {Probe("formatGameData", rawGames) : rawGames \in RawInputs}
               \cup {Probe("getOwnedSteamGames", reply) : reply \in OwnedGamesReplies}

NextFn ==
  \/ ApplyIsValidSteamId64
  \/ ApplyFormatGamesForPrompt
  \/ ApplyFormatGameData
  \/ ApplyGetOwnedSteamGames

SpecFn == InitFn /\ [][NextFn]_vars

(***************************************************************************)
(* The relay on its own: a GET /analyze whose completion call has just     *)
(* opened a stream, for every stream of up to MaxChunks chunks.            *)
(***************************************************************************)
MaxChunks == 3

\* The streams: chunks with content "a", "b" or no content, ending normally
\* or by a throw of the iteration.
StreamScripts ==
  LET deltas == SeqsUpTo({Delta("a"), Delta("b"), Delta("")}, MaxChunks)
  IN deltas \cup {Append(q, StreamError) : q \in deltas}

RelayReq(chunks) ==
  [IdleReq EXCEPT !.route = "analyze", !.steamId = ID_B, !.apiKey = TRUE, !.pc = "relay",
                  !.stream = chunks, !.did = <<"select:found", "openai">>]

InitRelay ==
  /\ steamGamesCache = {SeedRow}
  /\ clock = 0
  /\ ticks = 0
  /\ \E chunks \in StreamScripts :
       req = [r \in Reqs |-> IF r = 1 THEN RelayReq(chunks) ELSE IdleReq]
  /\ response = [r \in Reqs |-> IF r = 1 THEN StreamResponse(<<>>, TRUE) ELSE NoResponse]
  /\ lastWrite = [id \in ValidIds |-> NoWrite]
  /\ hitsSinceWrite = [id \in ValidIds |-> NoHits]
  /\ kvStore = {}
  /\ probe = NoProbe

NextRelay ==
  \/ \E r \in Reqs : AnalyzeRelay(r)
  \/ \E r \in Reqs : AnalyzeWrite(r)

SpecRelay == InitRelay /\ [][NextRelay]_vars

(***************************************************************************)
(* Progress of GET /games and GET /analyze.  Each await of a handler is on  *)
(* a promise of the database, of the Steam API or of the completion        *)
(* service; once it settles, the event loop resumes the handler.  A step   *)
(* that stands for such a settlement is therefore taken if it stays        *)
(* enabled.  Nothing is assumed about the arrival of requests, nor about   *)
(* the caller of GET /analyze taking the chunks written to it.  Progress   *)
(* does not depend on the time, so the clock stands still here.            *)
(***************************************************************************)
NextLive ==
  \/ \E r \in Reqs : GamesStart(r)
  \/ \E r \in Reqs : GamesSelect(r)
  \/ \E r \in Reqs : GamesFetch(r)
  \/ \E r \in Reqs : GamesInsert(r)
  \/ \E r \in Reqs : AnalyzeStart(r)
  \/ \E r \in Reqs : AnalyzeSelect(r)
  \/ \E r \in Reqs : AnalyzeCreate(r)
  \/ \E r \in Reqs : AnalyzeRelay(r)
  \/ \E r \in Reqs : AnalyzeWrite(r)

\* The database, the Steam API and the completion service answer, and the
\* completion stream goes on to its end.
UpstreamsAnswer ==
  \A r \in Reqs :
    /\ WF_vars(GamesSelect(r))
    /\ WF_vars(GamesFetch(r))
    /\ WF_vars(GamesInsert(r))
    /\ WF_vars(AnalyzeSelect(r))
    /\ WF_vars(AnalyzeCreate(r))
    /\ WF_vars(AnalyzeRelay(r))

SpecLive == Init /\ [][NextLive]_vars /\ UpstreamsAnswer

(***************************************************************************)
(* The key-value variant of GET /api/games/:steamid: the same handler      *)
(* with the MY_KV namespace as its cache.  A value is the JSON text of the *)
(* game list, put with expirationTtl; the namespace hands a key back       *)
(* until its expiration and null after it.                                 *)
(***************************************************************************)
KV_KEY_PREFIX == <<"steamgames:">>

\* const cacheKey = `${KV_KEY_PREFIX}${steamId}`
CacheKeyOf(steamId) == KV_KEY_PREFIX \o steamId

KvNull == [isNull |-> TRUE]

KvText(text) == [isNull |-> FALSE, text |-> text]

\* kv.get(key): the text stored under the key, null when there is none or
\* the key has expired.
KvGet(store, key, now) ==
  LET live == {e \in store : e.key = key /\ now < e.expiration}
  IN IF live = {} THEN KvNull ELSE KvText((CHOOSE e \in live : TRUE).value)

\* kv.put(key, value, {expirationTtl}): replaces what is under the key.
KvPut(store, key, value, now, expirationTtl) ==
  {e \in store : e.key # key}
    \cup {[key |-> key, value |-> value, expiration |-> now + expirationTtl * 1000]}

\* if (cachedData): null and the empty string are falsy.
TruthyText(cachedData) == ~cachedData.isNull /\ Len(cachedData.text) > 0

\* Variant: a cached list without games does not count as a hit (the rule
\* of the table-backed handler).
KvCacheHit_NonEmpty(cachedData) ==
  /\ TruthyText(cachedData)
  /\ Len(JsonParse(cachedData.text)) > 0

KvCacheHit(cachedData) == TruthyText(cachedData)

KvCacheBody(cacheKey, gameCount) ==
  [dataId |-> cacheKey, source |-> "cache", gameCount |-> gameCount,
   message |-> "Data retrieved from cache. Expires in approximately "
               \o ToString(CACHE_TTL_SECONDS) \o " seconds from creation."]

KvApiBody(cacheKey, freshGameCount) ==
  [dataId |-> cacheKey, source |-> "api", gameCount |-> freshGameCount,
   message |-> "Fetched fresh data from Steam API and stored in cache. Games found: "
               \o ToString(freshGameCount) \o "."]

\* Entry of the handler up to the first await (kv.get).
KvGamesStart(r) ==
  /\ Free(r)
  /\ \E steamId \in SteamIdParams, apiKey \in BOOLEAN :
       LET rq == [IdleReq EXCEPT !.route = "games-kv", !.steamId = steamId, !.apiKey = apiKey]
       IN IF ~isValidSteamId64(steamId)
          THEN Finish(r, DoneAtEntry(rq), HttpError(400, "Invalid SteamID format. Please provide a 64-bit SteamID."))
          ELSE IF ~apiKey
          THEN Finish(r, DoneAtEntry(rq), HttpError(500, "Server configuration error: API key missing."))
          ELSE /\ req' = [req EXCEPT ![r] = [rq EXCEPT !.pc = "get"]]
               /\ response' = [response EXCEPT ![r] = NoResponse]
  /\ UNCHANGED <<steamGamesCache, clock, ticks, lastWrite, hitsSinceWrite, probe, kvStore>>

\* kv.get resolves (or rejects): on a hit the handler answers with the
\* length of the parsed list, otherwise it goes on to call the Steam API.
KvGamesGet(r) ==
  /\ req[r].route = "games-kv"
  /\ req[r].pc = "get"
  /\ \E kvOk \in BOOLEAN :
       LET cachedData == KvGet(kvStore, CacheKeyOf(req[r].steamId), clock)
           failed == [req[r] EXCEPT !.did = Append(@, "get-failed")]
           rq == [req[r] EXCEPT
                    !.did = Append(@, IF cachedData.isNull THEN "get:null" ELSE "get:text")]
       IN IF ~kvOk
          THEN Finish(r, Done(failed), HttpError(500, "An internal server error occurred."))
          ELSE IF KvCacheHit(cachedData)
          THEN Finish(r, Done(rq),
                      Json(KvCacheBody(CacheKeyOf(rq.steamId), Len(JsonParse(cachedData.text)))))
          ELSE /\ req' = [req EXCEPT ![r] = [rq EXCEPT !.pc = "fetch"]]
               /\ UNCHANGED response
  /\ UNCHANGED <<steamGamesCache, clock, ticks, lastWrite, hitsSinceWrite, probe, kvStore>>

\* The Steam API call settles; on success the handler issues kv.put.
KvGamesFetch(r) ==
  /\ req[r].route = "games-kv"
  /\ req[r].pc = "fetch"
  /\ \E reply \in AxiosReplies :
       LET rq == [req[r] EXCEPT !.did = Append(@, "steam"), !.reply = reply]
           result == getFormattedSteamGames(rq.apiKey, rq.steamId, reply)
       IN IF ~result.ok
          THEN Finish(r, DoneWithReply(rq), HttpError(502, "Failed to fetch data from Steam API: " \o result.error.message))
          ELSE /\ req' = [req EXCEPT ![r] =
                    [rq EXCEPT !.pc = "put", !.freshGameData = result.games]]
               /\ UNCHANGED response
  /\ UNCHANGED <<steamGamesCache, clock, ticks, lastWrite, hitsSinceWrite, probe, kvStore>>

\* kv.put is applied by the namespace (or rejects) and the handler answers.
KvGamesPut(r) ==
  /\ req[r].route = "games-kv"
  /\ req[r].pc = "put"
  /\ \E kvOk \in BOOLEAN :
       LET rq == [req[r] EXCEPT !.did = Append(@, IF kvOk THEN "put" ELSE "put-failed")]
       IN IF ~kvOk
          THEN /\ Finish(r, Done(rq), HttpError(500, "An internal server error occurred."))
               /\ UNCHANGED kvStore
          ELSE /\ kvStore' = KvPut(kvStore, CacheKeyOf(rq.steamId),
                                   JsonStringify(rq.freshGameData), clock, CACHE_TTL_SECONDS)
               /\ Finish(r, Done(rq),
                         Json(KvApiBody(CacheKeyOf(rq.steamId), Len(rq.freshGameData))))
  /\ UNCHANGED <<steamGamesCache, clock, ticks, lastWrite, hitsSinceWrite, probe>>

NextKv ==
  \/ Tick
  \/ \E r \in Reqs : KvGamesStart(r)
  \/ \E r \in Reqs : KvGamesGet(r)
  \/ \E r \in Reqs : KvGamesFetch(r)
  \/ \E r \in Reqs : KvGamesPut(r)

SpecKv == Init /\ [][NextKv]_vars

(***************************************************************************)
(* GET /analyze over an entry that the worker did not write.  The table   *)
(* is a database that other writers reach as well; the payload column is  *)
(* JSON text, and what a read hands back is the value of that text.       *)
(***************************************************************************)
StoredPayloadKinds ==
  {"array", "array-text", "empty-array-text", "object", "object-text", "null", "null-text",
   "number", "number-text", "boolean", "string-text", "broken-text"}

StoredPayload(kind) ==
  CASE kind = "array" -> JsArrayObject(formatGameData(<<GameA, GameB>>))
    [] kind = "array-text" -> JsString(JsonStringify(formatGameData(<<GameA, GameB>>)))
    [] kind = "empty-array-text" -> JsString(JsonStringify(<<>>))
    [] kind = "object" -> JsPlainObject
    [] kind = "object-text" -> JsString(<<[tok |-> "{"], [tok |-> "}"]>>)
    [] kind = "null" -> JsNull
    [] kind = "null-text" -> JsString(<<[tok |-> "null"]>>)
    [] kind = "number" -> JsNumber
    [] kind = "number-text" -> JsString(<<[tok |-> "number"]>>)
    [] kind = "boolean" -> JsBoolean
    [] kind = "string-text" -> JsString(<<[tok |-> "string"]>>)
    [] kind = "broken-text" -> JsString(<<[tok |-> "["]>>)

\* The table holds one entry, of the first user, with any of the payloads.
InitStored ==
  /\ \E kind \in StoredPayloadKinds :
       steamGamesCache = {[steamId |-> ID_A, rawGameData |-> StoredPayload(kind), cachedAt |-> 0]}
  /\ clock = 0
  /\ ticks = 0
  /\ req = [r \in Reqs |-> IdleReq]
  /\ response = [r \in Reqs |-> NoResponse]
  /\ lastWrite = [id \in ValidIds |-> NoWrite]
  /\ hitsSinceWrite = [id \in ValidIds |-> NoHits]
  /\ kvStore = {}
  /\ probe = NoProbe

NextStored ==
  \/ \E r \in Reqs : AnalyzeStart(r)
  \/ \E r \in Reqs : AnalyzeSelect(r)
  \/ \E r \in Reqs : AnalyzeCreate(r)
  \/ \E r \in Reqs : AnalyzeRelay(r)
  \/ \E r \in Reqs : AnalyzeWrite(r)

SpecStored == InitStored /\ [][NextStored]_vars

(***************************************************************************)
(* Vocabulary of the properties                                            *)
(***************************************************************************)
RowsOf(tbl, id) == {row \in tbl : row.steamId = id}

LastDid(rq) == IF rq.did = <<>> THEN "nothing" ELSE rq.did[Len(rq.did)]

\* A 200 answer of GET /games: the only JSON body with a source field.
HasSource(resp) ==
  /\ resp.status = 200
  /\ "body" \in DOMAIN resp
  /\ "source" \in DOMAIN resp.body

IsCacheHit(resp) == HasSource(resp) /\ resp.body.source = CacheHitSource

IsApi(resp) == HasSource(resp) /\ resp.body.source = "api"

\* The step in which a request arrives in slot r and its handler starts.
Entry(r, route) ==
  /\ req[r].pc \in {"idle", "done"}
  /\ req'[r] # req[r] \/ response'[r] # response[r]
  /\ req'[r].route = route

\* The step in which request r's select resolves with a result.
SelectOk(r) ==
  /\ req[r].route = "games" /\ req[r].pc = "select"
  /\ req'[r].pc # "select"
  /\ LastDid(req'[r]) # "select-failed"

\* The step in which request r's Steam call settles.
FetchStep(r) ==
  /\ req[r].route = "games" /\ req[r].pc = "fetch"
  /\ req'[r].pc # "fetch"

\* The step in which request r's upsert is applied.
InsertOk(r) ==
  /\ req[r].route = "games" /\ req[r].pc = "insert"
  /\ req'[r].pc = "done"
  /\ LastDid(req'[r]) = "insert"

AnsweredFromCache(r) ==
  /\ req'[r].pc = "done"
  /\ IsCacheHit(response'[r])
  /\ "steam" \notin {req'[r].did[i] : i \in 1..Len(req'[r].did)}

GoesToFetch(r) == req'[r].pc = "fetch" /\ response'[r] = NoResponse

\* The step in which the select of GET /analyze request r resolves with a
\* result.
AnalyzeSelectOk(r) ==
  /\ req[r].route = "analyze" /\ req[r].pc = "select"
  /\ req'[r].pc # "select"
  /\ LastDid(req'[r]) # "select-failed"

\* The step in which the completion call of GET /analyze request r settles.
CreateStep(r) ==
  /\ req[r].route = "analyze" /\ req[r].pc = "create"
  /\ req'[r].pc # "create"

\* The step in which the profile call of GET /user request r settles.
ProfileStep(r) ==
  /\ req[r].route = "user" /\ req[r].pc = "profile"
  /\ req'[r].pc # "profile"

\* The step in which kv.get of request r resolves with a result.
KvGetOk(r) ==
  /\ req[r].route = "games-kv" /\ req[r].pc = "get"
  /\ req'[r].pc # "get"
  /\ LastDid(req'[r]) # "get-failed"

\* The step in which the Steam call of request r of the key-value variant
\* settles.
KvFetchStep(r) ==
  /\ req[r].route = "games-kv" /\ req[r].pc = "fetch"
  /\ req'[r].pc # "fetch"

\* The step in which kv.put of request r is applied.
KvPutOk(r) ==
  /\ req[r].route = "games-kv" /\ req[r].pc = "put"
  /\ req'[r].pc = "done"
  /\ LastDid(req'[r]) = "put"

\* The turn of the relay loop of request r in which the iteration of the
\* completion stream throws.
RelayThrows(r) ==
  /\ req[r].route = "analyze" /\ req[r].pc = "relay"
  /\ req[r].stream # <<>>
  /\ Head(req[r].stream).type = "error"
  /\ req'[r].pc # "relay"

\* The turn of the relay loop of request r in which the completion stream
\* is found to have ended.
RelayCompletes(r) ==
  /\ req[r].route = "analyze" /\ req[r].pc = "relay"
  /\ req[r].stream = <<>>
  /\ req'[r].pc = "done"

\* The contents of the chunks that carry one, in order.
RECURSIVE NonEmptyContents(_)
NonEmptyContents(chunks) ==
  IF chunks = <<>> THEN <<>>
  ELSE LET rest == NonEmptyContents(SubSeq(chunks, 1, Len(chunks) - 1))
           last == chunks[Len(chunks)]
       IN IF last.type = "delta" /\ last.content # "" THEN Append(rest, last.content) ELSE rest

IsPrefix(p, q) == Len(p) <= Len(q) /\ SubSeq(q, 1, Len(p)) = p

\* How many times request rq has done the thing called what.
Count(rq, what) == Cardinality({i \in DOMAIN rq.did : rq.did[i] = what})

\* The upstream call failed: axios rejected, or the reply has neither a
\* games list nor an empty inner object.
UpstreamFailed(reply) ==
  \/ reply.settled = "rejected"
  \/ /\ reply.settled = "resolved"
     /\ \/ "response" \notin DOMAIN reply.data
        \/ /\ "games" \notin DOMAIN reply.data.response
           /\ DOMAIN reply.data.response # {}

(***************************************************************************)
(* C1                                                                      *)
(***************************************************************************)
C1_UsableUpTo(r, maxAge) ==
  \E e \in RowsOf(steamGamesCache, req[r].steamId) :
    /\ req[r].dateNow - e.cachedAt <= maxAge
    /\ Len(e.gameData) > 0

\* C1 as stated: when the select of GET /games resolves, the request is
\* answered from the cache (no upstream fetch) exactly when an entry exists
\* with now - cachedAt <= TTL and at least one game; otherwise it goes on to
\* the upstream fetch.
C1_Original ==
  [][\A r \in Reqs : SelectOk(r) =>
       /\ AnsweredFromCache(r) <=> C1_UsableUpTo(r, CACHE_TTL_MS)
       /\ ~C1_UsableUpTo(r, CACHE_TTL_MS) => GoesToFetch(r)]_vars

\* C1 amended: the same with now - cachedAt < TTL: an entry whose age is
\* exactly the TTL is expired (cachedAt <= threshold) and is fetched again.
C1_Amended ==
  [][\A r \in Reqs : SelectOk(r) =>
       /\ AnsweredFromCache(r) <=> C1_UsableUpTo(r, CACHE_TTL_MS - 1)
       /\ ~C1_UsableUpTo(r, CACHE_TTL_MS - 1) => GoesToFetch(r)]_vars

\* A request was answered from the cache while another one, which found an
\* entry of age exactly TTL, went on to fetch.
C1_Witness ==
  \E r1, r2 \in Reqs :
    /\ req[r1].pc = "done" /\ IsCacheHit(response[r1]) /\ req[r1].did = <<"select:found">>
    /\ req[r2].pc = "fetch"
    /\ Len(req[r2].cachedResult) = 1
    /\ Len(req[r2].cachedResult[1].gameData) > 0
    /\ req[r2].dateNow - req[r2].cachedResult[1].cachedAt = CACHE_TTL_MS

(***************************************************************************)
(* C2                                                                      *)
(***************************************************************************)
\* C2: an empty upstream result is stored as an entry with zero games; a
\* GET /games whose select finds a zero-game entry always goes on to the
\* upstream fetch, whatever the entry's age; and no cache answer ever
\* carries gameCount 0.
C2_ZeroCountRefetch ==
  [][\A r \in Reqs :
       /\ (InsertOk(r) /\ req[r].freshGameData = <<>>) =>
            RowsOf(steamGamesCache', req[r].steamId) =
              {[steamId |-> req[r].steamId, gameData |-> <<>>, cachedAt |-> req[r].now]}
       /\ (SelectOk(r) /\ \E e \in RowsOf(steamGamesCache, req[r].steamId) : Len(e.gameData) = 0) =>
            GoesToFetch(r)
       /\ IsCacheHit(response'[r]) => response'[r].body.gameCount > 0]_vars

\* A request found a zero-game entry that is younger than the TTL, written
\* by an earlier request, and is fetching again.
C2_Witness ==
  \E r \in Reqs :
    /\ req[r].pc = "fetch"
    /\ Len(req[r].cachedResult) = 1
    /\ req[r].cachedResult[1].gameData = <<>>
    /\ req[r].cachedResult[1].cachedAt > req[r].cacheExpiryThreshold
    /\ lastWrite[req[r].steamId].written
    /\ lastWrite[req[r].steamId].gameData = <<>>

(***************************************************************************)
(* C3                                                                      *)
(***************************************************************************)
C3_FoundAtAge(r, age) ==
  \E e \in RowsOf(steamGamesCache, req[r].steamId) :
    /\ req[r].dateNow - e.cachedAt = age
    /\ Len(e.gameData) > 0

\* C3: with at least one game, an entry cached at now - TTL - 1s is stale
\* (the request fetches upstream) and one cached at now - TTL + 1s is fresh
\* (the request is answered from the cache); a zero-game entry is stale at
\* every age.
C3_FreshnessBoundary ==
  [][\A r \in Reqs : SelectOk(r) =>
       /\ C3_FoundAtAge(r, CACHE_TTL_MS + 1000) => GoesToFetch(r)
       /\ C3_FoundAtAge(r, CACHE_TTL_MS - 1000) => AnsweredFromCache(r)
       /\ (\E e \in RowsOf(steamGamesCache, req[r].steamId) : Len(e.gameData) = 0) =>
            GoesToFetch(r)]_vars

\* One request was answered from the cache by an entry one second younger
\* than the TTL; another found the entry one second older than the TTL and
\* is fetching.
C3_Witness ==
  \E r1, r2 \in Reqs :
    /\ req[r1].pc = "done" /\ IsCacheHit(response[r1])
    /\ \E e \in RowsOf(steamGamesCache, req[r1].steamId) :
         req[r1].dateNow - e.cachedAt = CACHE_TTL_MS - 1000
    /\ req[r2].pc = "fetch"
    /\ Len(req[r2].cachedResult) = 1
    /\ Len(req[r2].cachedResult[1].gameData) > 0
    /\ req[r2].dateNow - req[r2].cachedResult[1].cachedAt = CACHE_TTL_MS + 1000

(***************************************************************************)
(* C4                                                                      *)
(***************************************************************************)
\* C4: when the upstream fetch succeeds the handler takes the current time;
\* when its upsert is applied, the user's entry is exactly the fetched
\* sequence (also the empty one) with that timestamp, and the response is
\* 200 with source api and gameCount = number fetched = length stored.
C4_WriteThrough ==
  [][\A r \in Reqs :
       /\ (FetchStep(r) /\ req'[r].pc = "insert") =>
            /\ ~UpstreamFailed(req'[r].reply)
            /\ req'[r].now = clock
            /\ Len(req'[r].freshGameData) =
                 (IF "games" \in DOMAIN req'[r].reply.data.response
                  THEN Len(req'[r].reply.data.response.games) ELSE 0)
       /\ InsertOk(r) =>
            /\ RowsOf(steamGamesCache', req[r].steamId) =
                 {[steamId |-> req[r].steamId, gameData |-> req[r].freshGameData,
                   cachedAt |-> req[r].now]}
            /\ IsApi(response'[r])
            /\ response'[r].body.gameCount = Len(req[r].freshGameData)
            /\ \A e \in RowsOf(steamGamesCache', req[r].steamId) :
                 response'[r].body.gameCount = Len(e.gameData)]_vars

\* A request that found a stale entry has fetched an empty list and stored
\* it: the entry is empty, stamped after time 0, and the answer says api, 0.
C4_Witness ==
  \E r \in Reqs :
    /\ req[r].pc = "done" /\ IsApi(response[r])
    /\ req[r].did = <<"select:found", "steam", "insert">>
    /\ response[r].body.gameCount = 0
    /\ \E e \in RowsOf(steamGamesCache, req[r].steamId) :
         e.gameData = <<>> /\ e.cachedAt > 0

(***************************************************************************)
(* C5                                                                      *)
(***************************************************************************)
\* C5: when the upstream call of a GET /games fails, that step answers 502
\* and leaves the table as it is, and a request answered 502 has performed
\* no write at any step.
C5_FailureWritesNothing ==
  [][\A r \in Reqs :
       /\ (FetchStep(r) /\ UpstreamFailed(req'[r].reply)) =>
            /\ req'[r].pc = "done"
            /\ response'[r].status = 502
            /\ steamGamesCache' = steamGamesCache
       /\ (req'[r].pc = "done" /\ response'[r].status = 502) =>
            \A i \in 1..Len(req'[r].did) : req'[r].did[i] # "insert"]_vars

\* A request that found an entry it could not use got a rejected upstream
\* call: it was answered 502 and the expired entry is still there.
C5_Witness ==
  \E r \in Reqs :
    /\ req[r].route = "games"
    /\ req[r].pc = "done" /\ response[r].status = 502
    /\ req[r].did = <<"select:found", "steam">>
    /\ req[r].reply.settled = "rejected"
    /\ \E e \in RowsOf(steamGamesCache, req[r].steamId) :
         /\ Len(e.gameData) > 0
         /\ e.cachedAt + CACHE_TTL_MS <= clock

(***************************************************************************)
(* C6                                                                      *)
(***************************************************************************)
\* C6: in every reachable state the table holds at most one row per user
\* identifier.
C6_AtMostOneEntryPerUser ==
  \A id \in ValidIds : Cardinality(RowsOf(steamGamesCache, id)) <= 1

\* A request that found an entry has stored over it, next to the entry of
\* the other user.
C6_Witness ==
  /\ RowsOf(steamGamesCache, ID_B) # {}
  /\ \E r \in Reqs :
       /\ req[r].pc = "done"
       /\ req[r].did = <<"select:found", "steam", "insert">>
       /\ \E e \in RowsOf(steamGamesCache, req[r].steamId) : e.cachedAt > 0

(***************************************************************************)
(* C7                                                                      *)
(***************************************************************************)
\* C7: an upsert applied for a user who already has a row leaves exactly one
\* row for that user, carrying the game sequence and the cachedAt of this
\* upsert; the replaced row is gone unless it is equal, and the rows of
\* other users are untouched.
C7_UpsertOverwrites ==
  [][\A r \in Reqs :
       (InsertOk(r) /\ RowsOf(steamGamesCache, req[r].steamId) # {}) =>
         LET second == [steamId |-> req[r].steamId, gameData |-> req[r].freshGameData,
                        cachedAt |-> req[r].now]
         IN /\ RowsOf(steamGamesCache', req[r].steamId) = {second}
            /\ \A first \in RowsOf(steamGamesCache, req[r].steamId) :
                 first # second => first \notin steamGamesCache'
            /\ \A id \in ValidIds \ {req[r].steamId} :
                 RowsOf(steamGamesCache', id) = RowsOf(steamGamesCache, id)]_vars

\* Two requests for one user have both stored, one of them two games and the
\* other none; the single row left is the empty one.
C7_Witness ==
  \E r1, r2 \in Reqs :
    /\ r1 # r2 /\ req[r1].steamId = req[r2].steamId
    /\ req[r1].pc = "done" /\ IsApi(response[r1]) /\ response[r1].body.gameCount = 2
    /\ req[r2].pc = "done" /\ IsApi(response[r2]) /\ response[r2].body.gameCount = 0
    /\ \E e \in steamGamesCache :
         RowsOf(steamGamesCache, req[r1].steamId) = {e} /\ e.gameData = <<>>

(***************************************************************************)
(* C8                                                                      *)
(***************************************************************************)
\* C8: whatever the interleaving, a user for whom an upsert was applied has
\* exactly one row, equal to the (game sequence, timestamp) pair of the
\* upsert applied last.
C8_LastWriteWins ==
  \A id \in ValidIds :
    lastWrite[id].written =>
      RowsOf(steamGamesCache, id) =
        {[steamId |-> id, gameData |-> lastWrite[id].gameData,
          cachedAt |-> lastWrite[id].cachedAt]}

\* Two requests raced on a miss (both selects found nothing) and both have
\* stored, with different payloads.
C8_Witness ==
  \E r1, r2 \in Reqs :
    /\ r1 # r2 /\ req[r1].steamId = req[r2].steamId
    /\ req[r1].pc = "done" /\ req[r1].did = <<"select:absent", "steam", "insert">>
    /\ req[r2].pc = "done" /\ req[r2].did = <<"select:absent", "steam", "insert">>
    /\ response[r1].body.gameCount # response[r2].body.gameCount

(***************************************************************************)
(* C9                                                                      *)
(***************************************************************************)
\* C9: a GET /games answered from the cache leaves the table as it is, has
\* called nothing but the select, and reports the number of games of the
\* entry; when an earlier request was answered from the cache since the
\* entry was last written, both report the same gameCount.
C9_CacheHitIdempotent ==
  [][\A r \in Reqs :
       (SelectOk(r) /\ IsCacheHit(response'[r])) =>
         /\ steamGamesCache' = steamGamesCache
         /\ lastWrite' = lastWrite
         /\ req'[r].did = <<"select:found">>
         /\ \E e \in RowsOf(steamGamesCache, req[r].steamId) :
              response'[r].body.gameCount = Len(e.gameData)
         /\ \A i \in 1..Len(hitsSinceWrite[req[r].steamId]) :
              hitsSinceWrite[req[r].steamId][i] = response'[r].body.gameCount]_vars

\* Two requests in a row were answered from the cache with the same count,
\* with no upsert between them.
C9_Witness ==
  \E id \in ValidIds :
    /\ Len(hitsSinceWrite[id]) = 2
    /\ hitsSinceWrite[id][1] = hitsSinceWrite[id][2]
    /\ \E r \in Reqs :
         /\ req[r].pc = "done" /\ req[r].steamId = id
         /\ IsCacheHit(response[r])
         /\ response[r].body.gameCount = hitsSinceWrite[id][2]

(***************************************************************************)
(* C10                                                                     *)
(***************************************************************************)
C10_Descriptor(r, sources) ==
  (req[r].route = "games" /\ req[r].pc = "done" /\ response[r].status = 200) =>
    /\ response[r].body.source \in sources
    /\ response[r].body.dataId = req[r].steamId

\* C10 as stated: every successful GET /games response has a source that is
\* exactly "cache" or "api" and a dataId equal to the requested identifier.
C10_Original == \A r \in Reqs : C10_Descriptor(r, {"cache", "api"})

\* C10 amended: the source is exactly "cache-d1" (on a valid hit, when only
\* the select was performed) or "api" (after an upstream fetch and store),
\* and the dataId is the requested identifier.
C10_Amended ==
  \A r \in Reqs :
    /\ C10_Descriptor(r, {"cache-d1", "api"})
    /\ (req[r].route = "games" /\ req[r].pc = "done" /\ response[r].status = 200) =>
         /\ response[r].body.source = "cache-d1" <=> req[r].did = <<"select:found">>
         /\ response[r].body.source = "api" <=> LastDid(req[r]) = "insert"

\* One request was answered from the cache and another from the api.
C10_Witness ==
  \E r1, r2 \in Reqs :
    /\ req[r1].route = "games" /\ req[r1].pc = "done" /\ response[r1].status = 200
    /\ response[r1].body.source = "cache-d1"
    /\ response[r1].body.dataId = ID_A
    /\ req[r2].route = "games" /\ req[r2].pc = "done" /\ response[r2].status = 200
    /\ response[r2].body.source = "api"
    /\ response[r2].body.dataId = ID_A

(***************************************************************************)
(* C11                                                                     *)
(***************************************************************************)
\* C11: once a GET /games has answered 200, the table holds an entry under
\* the dataId it returned; entries are never removed; and a GET /analyze for
\* that dataId whose select resolves afterwards (also while other requests
\* run) finds the entry and is not answered 404.
C11_Retrievable ==
  [][/\ \A r \in Reqs :
          (req'[r].route = "games" /\ req'[r].pc = "done" /\ HasSource(response'[r])) =>
            RowsOf(steamGamesCache', response'[r].body.dataId) # {}
     /\ \A id \in ValidIds :
          RowsOf(steamGamesCache, id) # {} => RowsOf(steamGamesCache', id) # {}
     /\ \A r1, r2 \in Reqs :
          (/\ req[r1].route = "games" /\ req[r1].pc = "done" /\ HasSource(response[r1])
           /\ AnalyzeSelectOk(r2)
           /\ req[r2].steamId = response[r1].body.dataId) =>
            /\ response'[r2].status # 404
            /\ req'[r2].pc = "create"
            /\ req'[r2].did = <<"select:found">>
     /\ \A r \in Reqs :
          (AnalyzeSelectOk(r) /\ RowsOf(steamGamesCache, req[r].steamId) # {}) =>
            response'[r].status # 404]_vars

\* A GET /games was answered 200 from the api, and a GET /analyze for the
\* dataId it returned has found the entry and is calling the model.
C11_Witness ==
  \E r1, r2 \in Reqs :
    /\ req[r1].route = "games" /\ req[r1].pc = "done" /\ IsApi(response[r1])
    /\ req[r2].route = "analyze" /\ req[r2].pc = "create"
    /\ req[r2].steamId = response[r1].body.dataId
    /\ req[r2].did = <<"select:found">>

(***************************************************************************)
(* C12                                                                     *)
(***************************************************************************)
C12_DecimalDigits == {"0", "1", "2", "3", "4", "5", "6", "7", "8", "9"}

\* C12: isValidSteamId64 accepts a string exactly when it consists of
\* exactly 17 decimal digits: a shorter, a longer or the empty string, and a
\* string with a character that is no decimal digit, are all rejected.
C12_ValidationAccepts ==
  (probe.fn = "isValidSteamId64" /\ probe.applied) =>
    LET id == probe.arg
        allDigits == \A i \in 1..Len(id) : id[i] \in C12_DecimalDigits
    IN /\ (Len(id) = 17 /\ allDigits) => probe.result
       /\ Len(id) < 17 => ~probe.result
       /\ Len(id) > 17 => ~probe.result
       /\ Len(id) = 0 => ~probe.result
       /\ ~allDigits => ~probe.result

\* The validation has accepted a 17-digit string built from the input
\* alphabet, other than the identifiers the routes use.
C12_Witness ==
  /\ probe.fn = "isValidSteamId64" /\ probe.applied
  /\ probe.result
  /\ Len(probe.arg) = 17
  /\ probe.arg \notin {ID_A, ID_B}

(***************************************************************************)
(* C13                                                                     *)
(***************************************************************************)
C13_Answered(r, status) == req'[r].pc = "done" /\ response'[r].status = status

\* C13: GET /games answers 400 for an identifier that fails validation; 500
\* for a valid identifier when the API credential is missing; 500 when the
\* select or the upsert is rejected by the database; 502 when the upstream
\* call fails; and otherwise 200 with the descriptor (dataId, source,
\* gameCount, message).  No other status is given.
C13_StatusMapping ==
  [][\A r \in Reqs :
       /\ Entry(r, "games") =>
            /\ ~isValidSteamId64(req'[r].steamId) => C13_Answered(r, 400)
            /\ (isValidSteamId64(req'[r].steamId) /\ ~req'[r].apiKey) => C13_Answered(r, 500)
            /\ (isValidSteamId64(req'[r].steamId) /\ req'[r].apiKey) =>
                 (req'[r].pc = "select" /\ response'[r] = NoResponse)
       /\ (req[r].route = "games" /\ req[r].pc = "select" /\ req'[r].pc # "select") =>
            IF LastDid(req'[r]) = "select-failed"
            THEN C13_Answered(r, 500)
            ELSE \/ C13_Answered(r, 200) /\ IsCacheHit(response'[r])
                 \/ GoesToFetch(r)
       /\ FetchStep(r) =>
            IF UpstreamFailed(req'[r].reply)
            THEN C13_Answered(r, 502)
            ELSE req'[r].pc = "insert" /\ response'[r] = NoResponse
       /\ (req[r].route = "games" /\ req[r].pc = "insert" /\ req'[r].pc # "insert") =>
            IF LastDid(req'[r]) = "insert-failed"
            THEN C13_Answered(r, 500)
            ELSE C13_Answered(r, 200) /\ IsApi(response'[r])
       /\ (req'[r].route = "games" /\ req'[r].pc = "done") =>
            /\ response'[r].status \in {200, 400, 500, 502}
            /\ response'[r].status = 200 =>
                 DOMAIN response'[r].body = {"dataId", "source", "gameCount", "message"}]_vars

\* One request was answered 500 because the database rejected its upsert
\* after a successful fetch; another, with a malformed identifier and no
\* credential configured, was answered 400.
C13_Witness ==
  \E r1, r2 \in Reqs :
    /\ req[r1].route = "games" /\ req[r1].pc = "done" /\ response[r1].status = 500
    /\ LastDid(req[r1]) = "insert-failed"
    /\ req[r2].route = "games" /\ req[r2].pc = "done" /\ response[r2].status = 400
    /\ ~req[r2].apiKey /\ req[r2].steamId = ID_SHORT

(***************************************************************************)
(* C14                                                                     *)
(***************************************************************************)
\* C14: when the select of a GET /analyze resolves and the user has no
\* entry, the request is answered 404 with the message to fetch the game
\* data first; it has performed the select only (no call to the model and
\* none to the Steam API) and the table is as it was.
C14_AbsentEntry404 ==
  [][\A r \in Reqs :
       (AnalyzeSelectOk(r) /\ RowsOf(steamGamesCache, req[r].steamId) = {}) =>
         /\ req'[r].pc = "done"
         /\ response'[r] =
              HttpError(404, "Game data not found for SteamID. Please fetch data first via /api/games/")
         /\ req'[r].did = <<"select:absent">>
         /\ steamGamesCache' = steamGamesCache]_vars

\* A GET /analyze for a user without an entry was answered 404.
C14_Witness ==
  \E r \in Reqs :
    /\ req[r].route = "analyze" /\ req[r].pc = "done"
    /\ response[r].status = 404
    /\ req[r].did = <<"select:absent">>
    /\ RowsOf(steamGamesCache, req[r].steamId) = {}

(***************************************************************************)
(* C15                                                                     *)
(***************************************************************************)
\* C15: when the completion call of a GET /analyze throws, an error that
\* carries a response is answered 502, one that carries a request and no
\* response 504, and any other 500; the call is not answered with an error
\* when it opens a stream.
C15_CompletionErrorStatus ==
  [][\A r \in Reqs : CreateStep(r) =>
       IF req'[r].pc = "done"
       THEN LET error == req'[r].reply.error
            IN /\ ~req'[r].reply.opened
               /\ error.hasResponse => response'[r].status = 502
               /\ (error.hasRequest /\ ~error.hasResponse) => response'[r].status = 504
               /\ (~error.hasRequest /\ ~error.hasResponse) => response'[r].status = 500
       ELSE /\ req'[r].pc = "relay"
            /\ response'[r].status = 200]_vars

\* The completion call of a GET /analyze failed with a network error (a
\* request and no response) and the request was answered 504.
C15_Witness ==
  \E r \in Reqs :
    /\ req[r].route = "analyze" /\ req[r].pc = "done"
    /\ req[r].did = <<"select:found", "openai">>
    /\ response[r].status = 504
    /\ req[r].reply.error.hasRequest /\ ~req[r].reply.error.hasResponse

(***************************************************************************)
(* C16                                                                     *)
(***************************************************************************)
\* An error is raised for request r in this step: a precheck rejects the
\* request, the database rejects a select or an upsert, an upstream call
\* fails, the completion call throws, or the completion stream throws while
\* its chunks are relayed.
C16_ErrorRaised(r) ==
  \/ /\ \E route \in {"games", "user", "analyze"} : Entry(r, route)
     /\ ~isValidSteamId64(req'[r].steamId) \/ ~req'[r].apiKey
  \/ /\ req[r].pc = "select" /\ req'[r].pc # "select"
     /\ \/ LastDid(req'[r]) = "select-failed"
        \/ req[r].route = "analyze" /\ LastDid(req'[r]) = "select:absent"
  \/ FetchStep(r) /\ UpstreamFailed(req'[r].reply)
  \/ req[r].pc = "insert" /\ LastDid(req'[r]) = "insert-failed"
  \/ ProfileStep(r) /\ response'[r].status # 200
  \/ CreateStep(r) /\ req'[r].pc = "done"
  \/ RelayThrows(r)

\* C16 as stated: a step in which an error is raised for a request ends the
\* request with an HTTP error status, at every step of the handling, the
\* relay of the chunks included; no request ends with a success status
\* after an error.
C16_Original ==
  [][\A r \in Reqs : C16_ErrorRaised(r) =>
       /\ req'[r].pc = "done"
       /\ response'[r].status \in 400..599]_vars

(***************************************************************************)
(* C17                                                                     *)
(***************************************************************************)
\* C17: while a GET /analyze relays, the chunks come out of the stream in
\* its order; what has been written to the caller is at every moment a
\* prefix of the non-empty contents received so far and only ever grows at
\* its end (nothing reordered, duplicated, dropped; empty deltas skipped);
\* and when the stream is found complete the caller has all of them.
C17_RelayOrder ==
  [][\A r \in Reqs :
       (req[r].route = "analyze" /\ req[r].pc \in {"relay", "write"}) =>
         LET receivedAfter == IF req'[r].pc = "done" THEN req[r].received ELSE req'[r].received
         IN /\ IsPrefix(response[r].streamed, NonEmptyContents(req[r].received))
            /\ IsPrefix(response'[r].streamed, NonEmptyContents(receivedAfter))
            /\ IsPrefix(response[r].streamed, response'[r].streamed)
            /\ req'[r].pc # "done" =>
                 req'[r].received \o req'[r].stream = req[r].received \o req[r].stream
            /\ RelayCompletes(r) =>
                 /\ response'[r].streamed = NonEmptyContents(req[r].received)
                 /\ ~response'[r].open]_vars

\* The stream has delivered "a", an empty delta and "b" and has nothing
\* left; the caller has "a" then "b".
C17_Witness ==
  \E r \in Reqs :
    /\ req[r].route = "analyze" /\ req[r].pc = "relay"
    /\ req[r].stream = <<>>
    /\ req[r].received = <<Delta("a"), Delta(""), Delta("b")>>
    /\ response[r].streamed = <<"a", "b">>

(***************************************************************************)
(* C18                                                                     *)
(***************************************************************************)
\* C18 as stated: whenever the relay finds the completion stream complete
\* and returns, at least one chunk has been forwarded to the caller.
C18_Original ==
  [][\A r \in Reqs : RelayCompletes(r) => Len(response[r].streamed) >= 1]_vars

\* C18 amended: whenever the relay finds the completion stream complete and
\* returns, and the stream delivered at least one delta with content, at
\* least one chunk has been forwarded to the caller (before the return); a
\* stream without any content ends the response with an empty body.
C18_Amended ==
  [][\A r \in Reqs : RelayCompletes(r) =>
       IF NonEmptyContents(req[r].received) # <<>>
       THEN Len(response[r].streamed) >= 1 /\ response'[r].streamed = response[r].streamed
       ELSE response'[r] = StreamResponse(<<>>, FALSE)]_vars

\* The stream delivered an empty delta and then "b" and has nothing left;
\* "b" is with the caller and the relay is about to return.
C18_Witness ==
  \E r \in Reqs :
    /\ req[r].route = "analyze" /\ req[r].pc = "relay"
    /\ req[r].stream = <<>>
    /\ req[r].received = <<Delta(""), Delta("b")>>
    /\ response[r].streamed = <<"b">>

(***************************************************************************)
(* C19                                                                     *)
(***************************************************************************)
\* C19: a request never issues more than one Steam catalog call, one Steam
\* profile call or one completion call (and none of a kind that is not its
\* route's); the step in which such a call settles is the request's only
\* one for that call, and when the call failed the request ends in that
\* very step with an error status.
C19_NoRetries ==
  [][\A r \in Reqs :
       /\ Count(req'[r], "steam") <= (IF req'[r].route = "games" THEN 1 ELSE 0)
       /\ Count(req'[r], "steam-user") <= (IF req'[r].route = "user" THEN 1 ELSE 0)
       /\ Count(req'[r], "openai") <= (IF req'[r].route = "analyze" THEN 1 ELSE 0)
       /\ FetchStep(r) =>
            /\ Count(req[r], "steam") = 0 /\ Count(req'[r], "steam") = 1
            /\ UpstreamFailed(req'[r].reply) =>
                 req'[r].pc = "done" /\ response'[r].status \in 400..599
       /\ ProfileStep(r) =>
            /\ Count(req[r], "steam-user") = 0 /\ Count(req'[r], "steam-user") = 1
            /\ req'[r].pc = "done"
       /\ CreateStep(r) =>
            /\ Count(req[r], "openai") = 0 /\ Count(req'[r], "openai") = 1
            /\ req'[r].reply # NoReply =>
                 req'[r].pc = "done" /\ response'[r].status \in 400..599]_vars

\* The Steam catalog call of a GET /games got no response (a network
\* error); it was made once and the request was answered 502.
C19_Witness ==
  \E r \in Reqs :
    /\ req[r].route = "games" /\ req[r].pc = "done"
    /\ Count(req[r], "steam") = 1
    /\ req[r].reply.settled = "rejected" /\ ~req[r].reply.error.hasResponse
    /\ response[r].status = 502

(***************************************************************************)
(* C20                                                                     *)
(***************************************************************************)
\* The playtimes of the games, in hundredths of an hour.
RECURSIVE C20_Playtimes(_)
C20_Playtimes(games) ==
  IF Len(games) = 0 THEN <<>>
  ELSE IF Len(games) = 1 THEN <<parseFloatHundredths(games[1].playtimeHours)>>
  ELSE LET half == Len(games) \div 2
       IN C20_Playtimes(SubSeq(games, 1, half)) \o C20_Playtimes(SubSeq(games, half + 1, Len(games)))

\* The games the block is to list: those with more than 0.1 hours, each at
\* the place given by the number of such games ahead of it (a higher
\* playtime, or the same playtime and earlier in the list), the first 100.
C20_Kept(games) ==
  LET playtime == C20_Playtimes(games)
      played == {i \in 1..Len(games) : playtime[i] > 10}
      ahead(i) == Cardinality({j \in played : \/ playtime[j] > playtime[i]
                                              \/ playtime[j] = playtime[i] /\ j < i})
      kept == {i \in played : ahead(i) < 100}
  IN [k \in 1..Cardinality(kept) |-> games[CHOOSE i \in kept : ahead(i) = k - 1]]

\* C20: formatGamesForPrompt applied to a non-empty list from which some
\* game is kept returns the lines "- name: playtime", one per kept game,
\* where the kept games are those with more than 0.1 hours, by playtime
\* descending, the first 100; for [A 0.05 hours, B 10.0 hours, C 5.0 hours]
\* the lines are B's and then C's.
C20_BuildPrompt ==
  (/\ probe.fn = "formatGamesForPrompt" /\ probe.applied
   /\ ~probe.arg.absent /\ Len(probe.arg.items) > 0) =>
    LET kept == C20_Kept(probe.arg.items)
    IN /\ Len(kept) > 0 =>
            probe.result = JoinLines([k \in 1..Len(kept) |->
                             "- " \o kept[k].name \o ": " \o kept[k].playtimeHours])
       /\ probe.arg.items = <<PromptGame("A", "0.05 hours"), PromptGame("B", "10.0 hours"),
                              PromptGame("C", "5.0 hours")>> =>
            probe.result = "- B: 10.0 hours\n- C: 5.0 hours"

\* formatGamesForPrompt has been applied to [A 0.05 hours, B 10.0 hours,
\* C 5.0 hours] and has returned the lines of B and C.
C20_Witness ==
  /\ probe.fn = "formatGamesForPrompt" /\ probe.applied
  /\ ~probe.arg.absent
  /\ probe.arg.items = <<PromptGame("A", "0.05 hours"), PromptGame("B", "10.0 hours"),
                         PromptGame("C", "5.0 hours")>>
  /\ probe.result = "- B: 10.0 hours\n- C: 5.0 hours"

(***************************************************************************)
(* C21                                                                     *)
(***************************************************************************)
\* C21: formatGamesForPrompt answers an absent or empty list with the "no
\* games" sentence, a non-empty list without any game above 0.1 hours with
\* the "no significant playtime" sentence, never one for the other, and a
\* list with a game above 0.1 hours with neither sentence.
C21_Sentinels ==
  (probe.fn = "formatGamesForPrompt" /\ probe.applied) =>
    LET noGames == "The user has no games or the data is unavailable."
        noPlaytime == "The user owns games, but none have significant playtime recorded."
        games == probe.arg
        empty == games.absent \/ Len(games.items) = 0
        somePlayed == /\ ~empty
                      /\ \E i \in 1..Len(games.items) :
                           parseFloatHundredths(games.items[i].playtimeHours) > 10
    IN /\ empty => probe.result = noGames /\ probe.result # noPlaytime
       /\ (~empty /\ ~somePlayed) => probe.result = noPlaytime /\ probe.result # noGames
       /\ somePlayed => probe.result \notin {noGames, noPlaytime}

\* formatGamesForPrompt has been applied to [A 0.05 hours, D 0.1 hours] and
\* has returned the "no significant playtime" sentence.
C21_Witness ==
  /\ probe.fn = "formatGamesForPrompt" /\ probe.applied
  /\ ~probe.arg.absent
  /\ probe.arg.items = <<PromptGame("A", "0.05 hours"), PromptGame("D", "0.1 hours")>>
  /\ probe.result = "The user owns games, but none have significant playtime recorded."

(***************************************************************************)
(* C22                                                                     *)
(***************************************************************************)
\* C22: formatGameData returns, for every list, a list of the same length
\* whose i-th element is what the i-th record alone gives: its appid and
\* name, as playtime a one-decimal number of hours that is a tenth nearest
\* to minutes / 60 (either neighbour when the quotient is exactly halfway),
\* "2.1 hours" for 125 minutes, "Never" for a last-played time of 0 and
\* "No Icon URL Available" for an empty icon identifier.
C22_FormatGames ==
  (probe.fn = "formatGameData" /\ probe.applied) =>
    LET rawGames == probe.arg
        formatted == probe.result
    IN /\ Len(formatted) = Len(rawGames)
       /\ \A i \in 1..Len(rawGames) :
            LET game == rawGames[i]
                out == formatted[i]
            IN /\ out = formatGameData(<<game>>)[1]
               /\ out.appId = game.appid /\ out.name = game.name
               /\ \E t \in 0..MaxTenths :
                    /\ out.playtimeHours = Decimal1(t) \o " hours"
                    /\ 60 * t - 30 <= 10 * game.playtime_forever
                    /\ 10 * game.playtime_forever <= 60 * t + 30
               /\ game.playtime_forever = 125 => out.playtimeHours = "2.1 hours"
               /\ (game.rtime_last_played = 0) <=> (out.lastPlayed = "Never")
               /\ (game.img_icon_url = "") <=> (out.iconUrl = "No Icon URL Available")

\* formatGameData has been applied to a list whose second game has 125
\* minutes, was never played and has no icon, and whose first game is
\* another one.
C22_Witness ==
  /\ probe.fn = "formatGameData" /\ probe.applied
  /\ Len(probe.arg) = 2
  /\ probe.arg[1] # probe.arg[2]
  /\ probe.arg[2].playtime_forever = 125
  /\ probe.result[2].playtimeHours = "2.1 hours"
  /\ probe.result[2].lastPlayed = "Never"
  /\ probe.result[2].iconUrl = "No Icon URL Available"

(***************************************************************************)
(* C23                                                                     *)
(***************************************************************************)
\* The body is an object whose inner response is an object.
C23_HasInnerObject(data) ==
  /\ ~IsPrimitive(data)
  /\ "response" \in DOMAIN data
  /\ ~IsPrimitive(data.response)

\* C23 as stated: getOwnedSteamGames, given a reply of the Steam API,
\* returns no games (and no error) when the inner response is an object
\* without fields, returns the games of the list when the inner response
\* carries a games list, and fails for every other shape of the body.
C23_Original ==
  (probe.fn = "getOwnedSteamGames" /\ probe.applied /\ probe.arg.settled = "resolved") =>
    LET data == probe.arg.data
        emptyInner == C23_HasInnerObject(data) /\ DOMAIN data.response = {}
        gamesList == C23_HasInnerObject(data) /\ "games" \in DOMAIN data.response
    IN /\ emptyInner => probe.result.ok /\ probe.result.games = <<>>
       /\ gamesList =>
            /\ probe.result.ok
            /\ Len(probe.result.games) = Len(data.response.games)
            /\ \A i \in 1..Len(data.response.games) :
                 \E j \in 1..Len(probe.result.games) :
                   probe.result.games[j] = data.response.games[i]
       /\ (~emptyInner /\ ~gamesList) => ~probe.result.ok

(***************************************************************************)
(* C24                                                                     *)
(***************************************************************************)
\* The profile records of a reply of GetPlayerSummaries, when it has any.
C24_HasRecords(reply) ==
  /\ reply.settled = "resolved"
  /\ "response" \in DOMAIN reply.data
  /\ "players" \in DOMAIN reply.data.response

\* C24: a GET /user with an identifier that fails validation is answered
\* 400; when the profile call settles, a reply with zero records is
\* answered 404, a reply with one or more records 200 with the profile of
\* the first record, and every other outcome 502; no step of a GET /user
\* changes the table, and the request does nothing but the profile call.
C24_UserRoute ==
  [][\A r \in Reqs :
       /\ (Entry(r, "user") /\ ~isValidSteamId64(req'[r].steamId)) =>
            req'[r].pc = "done" /\ response'[r].status = 400
       /\ ProfileStep(r) =>
            LET reply == req'[r].reply
            IN /\ req'[r].pc = "done"
               /\ IF C24_HasRecords(reply) /\ Len(reply.data.response.players) = 0
                  THEN response'[r].status = 404
                  ELSE IF C24_HasRecords(reply)
                  THEN LET first == reply.data.response.players[1]
                       IN /\ response'[r].status = 200
                          /\ response'[r].body.steamId = first.steamid
                          /\ response'[r].body.personaName = first.personaname
                          /\ response'[r].body.profileUrl = first.profileurl
                          /\ response'[r].body.avatarIconUrl = first.avatar
                          /\ response'[r].body.avatarMediumUrl = first.avatarmedium
                          /\ response'[r].body.avatarFullUrl = first.avatarfull
                          /\ response'[r].body.personaState = first.personastate
                          /\ response'[r].body.visibilityState = first.communityvisibilitystate
                  ELSE response'[r].status = 502
       /\ (req'[r].route = "user" /\ req'[r] # req[r]) =>
            /\ steamGamesCache' = steamGamesCache
            /\ \A i \in 1..Len(req'[r].did) : req'[r].did[i] = "steam-user"]_vars

\* A GET /user got a reply with two records and was answered 200 with the
\* profile of the first of them.
C24_Witness ==
  \E r \in Reqs :
    /\ req[r].route = "user" /\ req[r].pc = "done"
    /\ response[r].status = 200
    /\ Len(req[r].reply.data.response.players) = 2
    /\ response[r].body.personaName = req[r].reply.data.response.players[1].personaname
    /\ response[r].body.personaName # req[r].reply.data.response.players[2].personaname

(***************************************************************************)
(* C25                                                                     *)
(***************************************************************************)
\* C25: in every GET /games request the Steam call settles only after the
\* select has been the request's one earlier effect; the request goes on
\* to the Steam call exactly when the select resolved without a usable
\* entry; the upsert is issued, and the table changed, only after the
\* request's own Steam call succeeded; and a response with source "api" is
\* sent only in the step in which the request's own upsert has been
\* applied, the table then holding what the request fetched.
C25_StepOrder ==
  [][/\ \A r \in Reqs :
          /\ FetchStep(r) =>
               /\ Len(req[r].did) = 1
               /\ req[r].did[1] \in {"select:found", "select:absent"}
          /\ SelectOk(r) =>
               LET cachedResult == SelectBySteamId(steamGamesCache, req[r].steamId)
                   usable == /\ Len(cachedResult) > 0
                             /\ CacheUsable(cachedResult[1], req[r].cacheExpiryThreshold)
               IN /\ ~usable <=> req'[r].pc = "fetch"
                  /\ usable <=> req'[r].pc = "done"
          /\ (req'[r].route = "games" /\ req'[r].pc = "insert" /\ req[r].pc # "insert") =>
               FetchStep(r) /\ ~UpstreamFailed(req'[r].reply)
          /\ (req[r].route = "games" /\ req[r].pc = "insert") =>
               /\ Len(req[r].did) = 2 /\ req[r].did[2] = "steam"
               /\ ~UpstreamFailed(req[r].reply)
          /\ (IsApi(response'[r]) /\ response'[r] # response[r]) =>
               /\ InsertOk(r)
               /\ \E row \in RowsOf(steamGamesCache', req[r].steamId) :
                    row.gameData = req[r].freshGameData /\ row.cachedAt = req[r].now
     /\ steamGamesCache' # steamGamesCache => \E r \in Reqs : InsertOk(r)]_vars

\* A GET /games found an entry it could not use, called Steam, stored the
\* result and answered with source "api".
C25_Witness ==
  \E r \in Reqs :
    /\ req[r].route = "games" /\ req[r].pc = "done"
    /\ req[r].did = <<"select:found", "steam", "insert">>
    /\ IsApi(response[r])

(***************************************************************************)
(* C26                                                                     *)
(***************************************************************************)
\* C26: a step changes the table only if it is the applied upsert of a GET
\* /games request whose Steam call succeeded, and then only the entry of
\* that request's user; every other step of a request (a select answered
\* from the cache, a step that ends a GET /games with an error, every step
\* of GET /analyze, GET /user and GET /model) leaves the table as it was.
C26_OnlyUpsertWrites ==
  [][/\ steamGamesCache' # steamGamesCache =>
          \E r \in Reqs :
            /\ InsertOk(r)
            /\ Count(req[r], "steam") = 1
            /\ ~UpstreamFailed(req[r].reply)
            /\ \A row \in steamGamesCache :
                 row.steamId # req[r].steamId => row \in steamGamesCache'
            /\ \A row \in steamGamesCache' :
                 row.steamId # req[r].steamId => row \in steamGamesCache
     /\ \A r \in Reqs :
          /\ (req'[r] # req[r] /\ req'[r].route \in {"analyze", "user", "model"}) =>
               steamGamesCache' = steamGamesCache
          /\ (response'[r] # response[r] /\ IsCacheHit(response'[r])) =>
               steamGamesCache' = steamGamesCache
          /\ (response'[r] # response[r] /\ req'[r].route = "games"
                /\ response'[r].status \in {400, 500, 502}) =>
               steamGamesCache' = steamGamesCache]_vars

\* After a write for a user, a GET /games of that user was answered from the
\* cache and another failed upstream on the entry grown stale: the table
\* holds exactly what was last written and the entry present at the start.
C26_Witness ==
  \E r1, r2 \in Reqs :
    /\ req[r1].route = "games" /\ req[r1].pc = "done"
    /\ IsCacheHit(response[r1])
    /\ req[r2].route = "games" /\ req[r2].pc = "done"
    /\ req[r2].steamId = req[r1].steamId
    /\ req[r2].did = <<"select:found", "steam">>
    /\ response[r2].status = 502
    /\ lastWrite[req[r1].steamId].written
    /\ steamGamesCache =
         {SeedRow, [steamId |-> req[r1].steamId,
                    gameData |-> lastWrite[req[r1].steamId].gameData,
                    cachedAt |-> lastWrite[req[r1].steamId].cachedAt]}

(***************************************************************************)
(* C27                                                                     *)
(***************************************************************************)
\* C27: no step removes an entry: a user identifier that has an entry in
\* the table before a step has one after it, so the set of identifiers
\* with an entry never shrinks, and the number of entries never falls.
C27_NoDeletion ==
  [][/\ \A id \in KnownIds :
          RowsOf(steamGamesCache, id) # {} => RowsOf(steamGamesCache', id) # {}
     /\ {row.steamId : row \in steamGamesCache} \subseteq
          {row.steamId : row \in steamGamesCache'}
     /\ Cardinality(steamGamesCache') >= Cardinality(steamGamesCache)]_vars

\* A request found the user's entry, fetched an empty list and stored it:
\* the user still has an entry (now empty), next to the one of the start.
C27_Witness ==
  \E r \in Reqs :
    /\ req[r].route = "games" /\ req[r].pc = "done"
    /\ req[r].did = <<"select:found", "steam", "insert">>
    /\ lastWrite[req[r].steamId].written
    /\ lastWrite[req[r].steamId].gameData = <<>>
    /\ \E row \in RowsOf(steamGamesCache, req[r].steamId) : row.gameData = <<>>
    /\ SeedRow \in steamGamesCache

(***************************************************************************)
(* C28                                                                     *)
(***************************************************************************)
\* The number of chunks with content that the relay of request rq has
\* received and that are not yet with the caller.
C28_Pending(rq, resp) == Len(NonEmptyContents(rq.received)) - Len(resp.streamed)

\* C28: while a GET /analyze relays, at most one received chunk with
\* content is not yet with the caller, and there is one exactly while its
\* write is awaited; the loop takes a chunk from the stream only when none
\* is pending, one chunk per turn; and a write in progress ends with that
\* one chunk added to what the caller has, before anything more is taken.
C28_OneChunkAtATime ==
  [][\A r \in Reqs :
       (req[r].route = "analyze" /\ req[r].pc \in {"relay", "write"}) =>
         /\ C28_Pending(req[r], response[r]) \in {0, 1}
         /\ C28_Pending(req[r], response[r]) = 1 <=> req[r].pc = "write"
         /\ req[r].pc = "write" =>
              /\ req[r].content # ""
              /\ req[r].content = req[r].received[Len(req[r].received)].content
              /\ req'[r] # req[r] =>
                   /\ req'[r].pc = "relay"
                   /\ req'[r].received = req[r].received
                   /\ req'[r].stream = req[r].stream
                   /\ response'[r].streamed = Append(response[r].streamed, req[r].content)
         /\ (req'[r].pc # "done" /\ req'[r].received # req[r].received) =>
              /\ req[r].pc = "relay"
              /\ C28_Pending(req[r], response[r]) = 0
              /\ req'[r].received = Append(req[r].received, Head(req[r].stream))
              /\ response'[r] = response[r]
              /\ C28_Pending(req'[r], response'[r]) \in {0, 1}]_vars

\* The loop awaits the write of "b", received after "a" and an empty delta:
\* "a" is with the caller, "b" is the one chunk pending and a further chunk
\* is still in the stream.
C28_Witness ==
  \E r \in Reqs :
    /\ req[r].route = "analyze" /\ req[r].pc = "write"
    /\ req[r].received = <<Delta("a"), Delta(""), Delta("b")>>
    /\ response[r].streamed = <<"a">>
    /\ req[r].content = "b"
    /\ req[r].stream # <<>>

(***************************************************************************)
(* C29                                                                     *)
(***************************************************************************)
\* The handler of the request in slot r is between two of its awaits.
C29_Running(r, route) ==
  req[r].route = route /\ req[r].pc \notin {"idle", "done"}

\* Request r has been answered; the body of a relayed answer is closed.
C29_Finished(r) ==
  /\ req[r].pc = "done"
  /\ response[r].status # 0
  /\ "open" \in DOMAIN response[r] => ~response[r].open

\* C29 as stated: if the database and the upstream services answer and the
\* completion stream ends, every GET /games that has started is eventually
\* answered and every GET /analyze that has started eventually finishes,
\* its relay included.
C29_Original ==
  \A r \in Reqs :
    /\ C29_Running(r, "games") ~> C29_Finished(r)
    /\ C29_Running(r, "analyze") ~> C29_Finished(r)

\* No write to the caller stays pending for ever.
C29_WritesSettle == \A r \in Reqs : []<>(req[r].pc # "write")

\* C29, amended: every GET /games that has started is eventually answered;
\* and if moreover every write to the caller of a GET /analyze settles,
\* every GET /analyze that has started eventually finishes.
C29_Amended ==
  /\ \A r \in Reqs : C29_Running(r, "games") ~> C29_Finished(r)
  /\ C29_WritesSettle =>
       \A r \in Reqs : C29_Running(r, "analyze") ~> C29_Finished(r)

\* A relay has finished after forwarding a chunk, and a GET /games that went
\* through select, Steam call and upsert has been answered.
C29_Witness ==
  \E r1, r2 \in Reqs :
    /\ req[r1].route = "analyze" /\ C29_Finished(r1)
    /\ "streamed" \in DOMAIN response[r1] /\ Len(response[r1].streamed) > 0
    /\ req[r2].route = "games" /\ C29_Finished(r2)
    /\ Count(req[r2], "insert") = 1

(***************************************************************************)
(* C30                                                                     *)
(***************************************************************************)
\* The Steam API answered the call with status 401 or 403.
C30_AuthFailure(reply) ==
  /\ reply.settled = "rejected"
  /\ reply.error.isAxiosError /\ reply.error.hasResponse
  /\ reply.error.status \in {401, 403}

\* The error getOwnedSteamGames raises for an answer with that status.
C30_AuthMessage(status) ==
  "Steam API request failed with status " \o ToString(status)
    \o ". Check API key or permissions."

\* C30: for an answer 401 or 403 getOwnedSteamGames raises the error that
\* names the status and the API key, an error no other failed call gets
\* (those are raised again as they came); and when the Steam call of a GET
\* /games fails, for that reason or another, the request ends in that step
\* with 502 and the message of the error, and the table is not written.
C30_AuthIs502 ==
  [][\A r \in Reqs :
       (FetchStep(r) /\ UpstreamFailed(req'[r].reply)) =>
         LET reply == req'[r].reply
             result == getOwnedSteamGames(reply)
         IN /\ ~result.ok
            /\ response'[r].status = 502
            /\ response'[r].message =
                 "Failed to fetch data from Steam API: " \o result.error.message
            /\ req'[r].pc = "done"
            /\ Count(req'[r], "insert") = 0
            /\ steamGamesCache' = steamGamesCache
            /\ IF C30_AuthFailure(reply)
               THEN result.error.message = C30_AuthMessage(reply.error.status)
               ELSE \A status \in {401, 403} :
                      result.error.message # C30_AuthMessage(status)
            /\ \A other \in OwnedGamesReplies :
                 LET raised == getOwnedSteamGames(other)
                 IN /\ C30_AuthFailure(other) =>
                         /\ ~raised.ok
                         /\ raised.error.message = C30_AuthMessage(other.error.status)
                    /\ (other.settled = "rejected" /\ ~C30_AuthFailure(other)) =>
                         /\ ~raised.ok
                         /\ raised.error = ErrAxios(other.error)
                         /\ \A status \in {401, 403} :
                              raised.error.message # C30_AuthMessage(status)]_vars

\* A GET /games of a user without an entry was answered 502 after the Steam
\* API refused the key with 401: the answer carries the message of that
\* error and the user still has no entry.
C30_Witness ==
  \E r \in Reqs :
    /\ req[r].route = "games" /\ req[r].pc = "done"
    /\ req[r].did = <<"select:absent", "steam">>
    /\ C30_AuthFailure(req[r].reply)
    /\ response[r].status = 502
    /\ response[r].message =
         "Failed to fetch data from Steam API: " \o C30_AuthMessage(401)
    /\ RowsOf(steamGamesCache, req[r].steamId) = {}

(***************************************************************************)
(* C31                                                                     *)
(***************************************************************************)
\* No two adjacent games of the sequence are out of name order.
C31_ByName(gameData) ==
  \A i \in 1..(Len(gameData) - 1) :
    localeCompare(gameData[i].name, gameData[i + 1].name) <= 0

\* C31: before and after every step each entry of the table holds its
\* games in ascending order of name; and the entry an upsert writes holds
\* the games of the reply the request got, each once, in that order.
C31_StoredByName ==
  [][/\ \A row \in steamGamesCache \cup steamGamesCache' : C31_ByName(row.gameData)
     /\ \A r \in Reqs :
          InsertOk(r) =>
            \A row \in RowsOf(steamGamesCache', req[r].steamId) :
              LET fetched == IF CarriesGames(req[r].reply.data)
                             THEN req[r].reply.data.response.games ELSE <<>>
              IN /\ Len(row.gameData) = Len(fetched)
                 /\ \A i \in 1..Len(fetched) :
                      Cardinality({j \in 1..Len(row.gameData) :
                                     row.gameData[j].appId = fetched[i].appid
                                       /\ row.gameData[j].name = fetched[i].name}) = 1
                 /\ C31_ByName(row.gameData)]_vars

\* The reply listed "B" before "a"; the entry written from it holds "a"
\* before "B".
C31_Witness ==
  \E r \in Reqs :
    /\ req[r].route = "games" /\ req[r].pc = "done"
    /\ Count(req[r], "insert") = 1
    /\ \E row \in RowsOf(steamGamesCache, req[r].steamId) :
         /\ row.steamId # SeedRow.steamId
         /\ Len(row.gameData) = 2
         /\ row.gameData[1].name = "a" /\ row.gameData[2].name = "B"
         /\ row.gameData[1].appId = GameA.appid

(***************************************************************************)
(* C32                                                                     *)
(***************************************************************************)
\* The user prompt built from an entry without games.
C32_NoGamesPrompt ==
  "game data:\n" \o "The user has no games or the data is unavailable." \o "\nbegin:"

\* C32: when the select of a GET /analyze resolves and the user has an
\* entry, the request goes on to the completion call with a prompt built
\* from that entry, whatever the age of the entry and also when it holds
\* no games (the prompt is then the fixed sentence); it is not answered in
\* that step; and no GET /analyze ever calls the Steam API or writes the
\* table.
C32_NoFreshnessPolicy ==
  [][\A r \in Reqs :
       /\ (AnalyzeSelectOk(r) /\ RowsOf(steamGamesCache, req[r].steamId) # {}) =>
            \E row \in RowsOf(steamGamesCache, req[r].steamId) :
              /\ req'[r].pc = "create"
              /\ response'[r] = response[r]
              /\ Len(req'[r].messages) = 2
              /\ req'[r].messages[2].role = "user"
              /\ req'[r].messages[2].content =
                   "game data:\n" \o formatGamesForPrompt(JsArray(row.gameData)) \o "\nbegin:"
              /\ Len(row.gameData) = 0 => req'[r].messages[2].content = C32_NoGamesPrompt
              /\ Len(row.gameData) > 0 => req'[r].messages[2].content # C32_NoGamesPrompt
       /\ (req'[r].route = "analyze" /\ req'[r] # req[r]) =>
            /\ Count(req'[r], "steam") = 0
            /\ Count(req'[r], "insert") = 0
            /\ steamGamesCache' = steamGamesCache]_vars

\* A GET /analyze is about to call the model with the fixed sentence: the
\* entry it read holds no games and is older than the TTL.
C32_Witness ==
  \E r \in Reqs :
    /\ req[r].route = "analyze" /\ req[r].pc = "create"
    /\ req[r].messages[2].content = C32_NoGamesPrompt
    /\ \E row \in RowsOf(steamGamesCache, req[r].steamId) :
         /\ row.gameData = <<>>
         /\ isExpired(row.cachedAt, ExpiryThreshold(clock))

(***************************************************************************)
(* C33                                                                     *)
(***************************************************************************)
\* The routes that check an identifier and a credential on entry.
C33_Routes == {"games", "user", "analyze"}

\* C33: when a GET /games, GET /user or GET /analyze arrives, an identifier
\* that fails validation is answered 400 whether or not the credential is
\* configured; a valid identifier with the credential missing is answered
\* 500; in both cases the request ends in that step having done nothing
\* (no select, no upsert, no call to Steam or to the model) and the table
\* is as it was; and only a request that passed both checks goes on, still
\* unanswered and with nothing done, to its first await.
C33_PrecheckOrder ==
  [][\A r \in Reqs : \A route \in C33_Routes :
       Entry(r, route) =>
         /\ ~isValidSteamId64(req'[r].steamId) =>
              /\ response'[r].status = 400
              /\ req'[r].pc = "done"
         /\ (isValidSteamId64(req'[r].steamId) /\ ~req'[r].apiKey) =>
              /\ response'[r].status = 500
              /\ req'[r].pc = "done"
         /\ (isValidSteamId64(req'[r].steamId) /\ req'[r].apiKey) =>
              /\ response'[r] = NoResponse
              /\ req'[r].pc = (IF route = "user" THEN "profile" ELSE "select")
         /\ req'[r].did = <<>>
         /\ req'[r].reply = NoReply
         /\ steamGamesCache' = steamGamesCache]_vars

\* A GET /games and a GET /analyze, each with an identifier that fails
\* validation and no credential configured, were answered 400 and have
\* done nothing.
C33_Witness ==
  \E r1, r2 \in Reqs :
    /\ req[r1].route = "games" /\ req[r2].route = "analyze"
    /\ \A r \in {r1, r2} :
         /\ req[r].pc = "done"
         /\ ~isValidSteamId64(req[r].steamId)
         /\ ~req[r].apiKey
         /\ response[r].status = 400
         /\ req[r].did = <<>>

(***************************************************************************)
(* C34                                                                     *)
(***************************************************************************)
\* The entry request rq is about to write: what it fetched and the time it
\* took when the fetch returned.
C34_PairOf(rq) ==
  [steamId |-> rq.steamId, gameData |-> rq.freshGameData, cachedAt |-> rq.now]

\* C34: a request takes its timestamp in the step in which its fetch
\* returns and keeps both unchanged until its upsert is applied; and every
\* entry found in the table after a step was there before the step or is,
\* payload and timestamp alike, what the one request whose upsert the step
\* applies had fetched and stamped.  So no entry ever holds the payload of
\* one request with the timestamp of another.
C34_NoTornEntries ==
  [][/\ \A row \in steamGamesCache' :
          \/ row \in steamGamesCache
          \/ \E r \in Reqs : InsertOk(r) /\ row = C34_PairOf(req[r])
     /\ \A r \in Reqs :
          /\ (FetchStep(r) /\ req'[r].pc = "insert") =>
               /\ req'[r].now = clock
               /\ req'[r].freshGameData =
                    getFormattedSteamGames(req[r].apiKey, req[r].steamId, req'[r].reply).games
          /\ (req[r].route = "games" /\ req[r].pc = "insert" /\ req'[r].pc = "insert") =>
               C34_PairOf(req'[r]) = C34_PairOf(req[r])]_vars

\* Two GET /games for one user interleave: one has stored two games, the
\* other holds an empty list with a later timestamp and has not stored yet;
\* the entry is the first one's, payload and timestamp.
C34_Witness ==
  \E r1, r2 \in Reqs :
    /\ req[r1].route = "games" /\ req[r1].pc = "done" /\ IsApi(response[r1])
    /\ response[r1].body.gameCount = 2
    /\ req[r2].route = "games" /\ req[r2].pc = "insert"
    /\ req[r2].steamId = req[r1].steamId
    /\ req[r2].freshGameData = <<>>
    /\ \E row \in RowsOf(steamGamesCache, req[r1].steamId) :
         /\ Len(row.gameData) = 2
         /\ row.cachedAt < req[r2].now
         /\ lastWrite[row.steamId].cachedAt = row.cachedAt

(***************************************************************************)
(* C35                                                                     *)
(***************************************************************************)
\* C35 as stated: an upsert applied for a user who has an entry carries a
\* timestamp greater than or equal to the cachedAt it replaces.
C35_Original ==
  [][\A r \in Reqs :
       InsertOk(r) =>
         \A old \in RowsOf(steamGamesCache, req[r].steamId) :
           \A new \in RowsOf(steamGamesCache', req[r].steamId) :
             new.cachedAt >= old.cachedAt]_vars

\* C35, amended: no entry is stamped later than the current time; when the
\* fetch of a request returns, the timestamp the request takes is the
\* current time and so is greater than or equal to the cachedAt the user's
\* entry has at that moment; the upsert, when applied, sets cachedAt to
\* that timestamp; and it moves cachedAt backward only if the entry it
\* replaces is not the one that was there when the timestamp was taken.
C35_Amended ==
  [][/\ \A row \in steamGamesCache \cup steamGamesCache' : row.cachedAt <= clock
     /\ \A r \in Reqs :
          /\ (FetchStep(r) /\ req'[r].pc = "insert") =>
               /\ req'[r].now = clock
               /\ \A row \in RowsOf(steamGamesCache, req[r].steamId) :
                    req'[r].now >= row.cachedAt
          /\ (req[r].route = "games" /\ req[r].pc = "insert") => req[r].now <= clock
          /\ InsertOk(r) =>
               /\ \A new \in RowsOf(steamGamesCache', req[r].steamId) :
                    new.cachedAt = req[r].now
               /\ \A old \in RowsOf(steamGamesCache, req[r].steamId) :
                    old.cachedAt > req[r].now =>
                      /\ lastWrite[req[r].steamId].written
                      /\ lastWrite[req[r].steamId].cachedAt = old.cachedAt]_vars

\* A GET /games found the user's entry stale and its fetch has returned:
\* the timestamp it took is later than the cachedAt of the entry it is
\* about to replace.
C35_Witness ==
  \E r \in Reqs :
    /\ req[r].route = "games" /\ req[r].pc = "insert"
    /\ req[r].did = <<"select:found", "steam">>
    /\ \E row \in RowsOf(steamGamesCache, req[r].steamId) :
         /\ req[r].now > row.cachedAt
         /\ req[r].now = clock

(***************************************************************************)
(* C36                                                                     *)
(***************************************************************************)
\* The entries of the namespace under the key of request rq that have not
\* expired.
C36_Held(rq) ==
  {e \in kvStore : e.key = CacheKeyOf(rq.steamId) /\ clock < e.expiration}

\* C36: in the key-value variant a Steam call that succeeds goes on to
\* kv.put also when it returned no games; the put applied leaves under the
\* user's key the text of exactly the fetched list, expiring one TTL later;
\* and a request whose kv.get resolves while such a key has not expired is
\* answered from the cache in that step, with the number of games of the
\* stored list (zero for the empty one), without a call to the Steam API;
\* only a request that gets null goes on to the Steam call.
C36_EmptyResultCached ==
  [][\A r \in Reqs :
       /\ KvFetchStep(r) => (~UpstreamFailed(req'[r].reply) <=> req'[r].pc = "put")
       /\ KvPutOk(r) =>
            /\ \E e \in kvStore' :
                 /\ e.key = CacheKeyOf(req[r].steamId)
                 /\ Len(e.value) = Len(req[r].freshGameData) + 2
                 /\ \A i \in 1..Len(req[r].freshGameData) :
                      e.value[i + 1].value = req[r].freshGameData[i]
                 /\ e.expiration = clock + CACHE_TTL_MS
            /\ Cardinality({e \in kvStore' : e.key = CacheKeyOf(req[r].steamId)}) = 1
       /\ KvGetOk(r) =>
            IF C36_Held(req[r]) # {}
            THEN /\ req'[r].pc = "done"
                 /\ response'[r].status = 200
                 /\ response'[r].body.source = "cache"
                 /\ \A e \in C36_Held(req[r]) :
                      response'[r].body.gameCount = Len(e.value) - 2
                 /\ Count(req'[r], "steam") = 0
                 /\ kvStore' = kvStore
            ELSE req'[r].pc = "fetch"]_vars

\* An empty list was stored and, later but within the TTL, a request of the
\* same user was answered from the cache with zero games and no Steam call.
C36_Witness ==
  \E r \in Reqs :
    /\ req[r].route = "games-kv" /\ req[r].pc = "done"
    /\ req[r].did = <<"get:text">>
    /\ response[r].status = 200
    /\ response[r].body.source = "cache"
    /\ response[r].body.gameCount = 0
    /\ \E e \in C36_Held(req[r]) :
         /\ e.value = JsonStringify(<<>>)
         /\ e.expiration - CACHE_TTL_MS < clock

(***************************************************************************)
(* C37                                                                     *)
(***************************************************************************)
\* The payload that the select of request rq reads.
C37_Read(rq) == RawGameData(CHOOSE row \in RowsOf(steamGamesCache, rq.steamId) : TRUE)

\* The payload is the text of an array.
C37_ArrayText(raw) ==
  /\ raw.typeof = "string"
  /\ Len(raw.text) >= 2
  /\ raw.text[1].tok = "[" /\ raw.text[Len(raw.text)].tok = "]"

\* The payload is neither a string nor an object, or it is an object that
\* is no array (null included), or it is a string whose text is not that of
\* an array (a text that does not parse included).
C37_Unusable(raw) ==
  \/ raw.typeof \notin {"string", "object"}
  \/ raw.typeof = "object" /\ ~raw.isArray
  \/ raw.typeof = "string" /\ ~C37_ArrayText(raw)

\* C37: when the select of a GET /analyze request resolves with an entry
\* whose payload is neither a JSON string nor an object, or is not an array
\* after parsing, the request is answered in that step with 500 "Failed to
\* process stored game data. Data might be corrupted." and has made no
\* call to the completion service; with an array, or the text of one, it
\* goes on to the completion call; and a completion call is only ever made
\* by a request that read such a payload.
C37_CorruptPayloadIs500 ==
  [][\A r \in Reqs :
       /\ (AnalyzeSelectOk(r) /\ RowsOf(steamGamesCache, req[r].steamId) # {}) =>
            IF C37_Unusable(C37_Read(req[r]))
            THEN /\ req'[r].pc = "done"
                 /\ response'[r] =
                      HttpError(500, "Failed to process stored game data. Data might be corrupted.")
                 /\ Count(req'[r], "openai") = 0
            ELSE /\ req'[r].pc = "create"
                 /\ response'[r] = NoResponse
       /\ CreateStep(r) =>
            /\ RowsOf(steamGamesCache, req[r].steamId) # {}
            /\ ~C37_Unusable(C37_Read(req[r]))]_vars

\* A request that found an entry whose payload is no array was answered
\* with 500 and made no completion call.
C37_Witness ==
  \E r \in Reqs :
    /\ req[r].route = "analyze" /\ req[r].pc = "done"
    /\ req[r].did = <<"select:found">>
    /\ RowsOf(steamGamesCache, req[r].steamId) # {}
    /\ C37_Unusable(C37_Read(req[r]))
    /\ response[r] = HttpError(500, "Failed to process stored game data. Data might be corrupted.")

====
